---- MODULE Spec2Model ----
(***************************************************************************)
(* Telemetry normalization and fusion engine (ravirajsdeshmukh/telemetry). *)
(*                                                                         *)
(* The components of the repository are modelled, each with its own        *)
(* specification over the shared variables:                                *)
(*   SpecName    parse_interface_base_name   (common/interface_mapping.py) *)
(*   SpecTput    ThroughputCalculator       (scripts/calculate_throughput) *)
(*   SpecOptics  parse_optical_diagnostics   (parsers/optics_diagnostics)  *)
(*   SpecMerge   merge_metadata              (juniper/merge_metadata.py)   *)
(*   SpecResolve parse_juniper_interface_name (common/interface_mapping)   *)
(*   SpecFiber   determine_fiber_type        (common/fiber_detection.py)   *)
(*   SpecChassis parse_chassis_inventory    (juniper/chassis_inventory)    *)
(*   SpecPic     parse_pic_detail            (juniper/pic_detail.py)       *)
(*   SpecProm    json_to_prometheus          (scripts/push_to_prometheus)  *)
(*   SpecStats   parse_interface_statistics followed by process_metrics    *)
(*   SpecHourly  process_all_devices      (scripts/write_hourly_parquet)   *)
(*   SpecExtract the optics and the chassis extractor side by side         *)
(*                                                                         *)
(* Conventions.  A Python string that the code takes apart (interface      *)
(* names, device names, file names) is a sequence of one-character         *)
(* strings.  An optional value is None (<<>>) or Some(v) (<<v>>).  A       *)
(* Python dict whose key set varies is a function whose DOMAIN is the set  *)
(* of keys present.                                                        *)
(***************************************************************************)
EXTENDS Integers, Sequences, FiniteSets, TLC

VARIABLES
    \* --- parse_interface_base_name
    interface_name,     \* the string handed to parse_interface_base_name
    base_name,          \* its result (None before the call)
    base_name2,         \* the result of the call on base_name
    name_pc,            \* "in" | "once" | "twice"
    \* --- ThroughputCalculator
    state_dir,          \* state file name -> None | Some(saved state dict)
    tput_in,            \* interface_data handed to the latest call (None at start)
    tput_prev,          \* what _load_previous_state returned in that call
    tput_out,           \* interface_data returned by that call (None at start)
    observed,           \* history: (device, if_name) -> None | Some(latest input)
    observed_before,    \* history: observed[key] as it was before the latest call
    \* --- parse_optical_diagnostics
    xml_content,        \* the document: None (not well-formed) | Some(sequence of
                        \* physical-interface elements)
    additional_metadata,\* None | Some(dict)
    optics_result,      \* None | Some([interfaces |-> ..., lanes |-> ...])
    optics_pc,          \* "in" | "done" | "raised" (an exception left the call)
    optics_stderr,      \* the lines the call printed to sys.stderr
    \* --- merge_metadata
    system_info,        \* dict: origin_hostname, device_profile
    chassis_inv,        \* dict: origin_name, transceivers (a dict by interface name)
    pic_detail,         \* None | Some(dict: transceivers)
    optics_metrics,     \* dict: interfaces, lanes; merge_metadata updates it in place
    merged_metrics,     \* None | Some(what merge_metadata returned)
    remerged_metrics,   \* None | Some(what a second call, on the fused records, returned)
    merge_before,       \* history: None | Some(the four arguments as the first call got them)
    merge_pc,           \* "in" | "done" | "twice"
    \* --- parse_juniper_interface_name
    resolve_args,       \* the arguments of the call: fpc, pic, port, platform_hint
    resolved_name,      \* None | Some(the interface name returned)
    \* --- determine_fiber_type
    fiber_args,         \* the arguments of the call: media_type, description, wavelength_nm
    fiber_type,         \* what the call returned: None | Some(fiber type)
    fiber_pc,           \* "in" | "done"
    \* --- parse_chassis_inventory
    chassis_xml,        \* None (no well-formed document) | Some(document)
    chassis_hint,       \* None | Some(platform hint)
    chassis_result,     \* None | Some(what parse_chassis_inventory returned)
    chassis_stderr,     \* the lines the call printed to sys.stderr
    \* --- parse_pic_detail, and fusion with what it returned
    pic_xml,            \* None (no well-formed document) | Some(sequence of port elements)
    pic_hint,           \* None | Some(platform hint)
    pic_result,         \* None | Some(what parse_pic_detail returned)
    pic_fused,          \* None | Some(what merge_metadata returned, given pic_result)
    \* --- json_to_prometheus
    prom_data,          \* the dict handed to json_to_prometheus: interfaces, lanes
    prom_lines,         \* None | Some(the lines of the text returned)
    \* --- parse_interface_statistics followed by process_metrics, cycle after cycle
    stats_clock,        \* time.time() of the latest cycle, in whole seconds
    stats_xml,          \* the document of the latest cycle (None: not well-formed)
    stats_before,       \* history: None | Some([clock, xml] of the cycle before)
    stats_dir,          \* the state directory: state file name -> Some(saved state)
    stats_out,          \* None | Some(the interface records process_metrics wrote)
    stats_cycle,        \* the cycles run so far
    \* --- process_all_devices of write_hourly_parquet.py
    device_files,       \* device -> the metrics files of the device, by metric type
    hourly_interface_dom, \* device -> None | Some(what extract_interface_dom_metrics returned)
    hourly_written,     \* None | Some(the three tables written)
    hourly_stderr,      \* the devices reported with "Error processing"
    hourly_exit         \* None | Some(exit status)

name_vars == <<interface_name, base_name, base_name2, name_pc>>
tput_vars == <<state_dir, tput_in, tput_prev, tput_out, observed, observed_before>>
optics_vars == <<xml_content, additional_metadata, optics_result, optics_pc,
                 optics_stderr>>
merge_vars == <<system_info, chassis_inv, pic_detail, optics_metrics, merged_metrics,
                remerged_metrics, merge_before, merge_pc>>
resolve_vars == <<resolve_args, resolved_name>>
fiber_vars == <<fiber_args, fiber_type, fiber_pc>>
chassis_vars == <<chassis_xml, chassis_hint, chassis_result, chassis_stderr>>
pic_vars == <<pic_xml, pic_hint, pic_result, pic_fused>>
prom_vars == <<prom_data, prom_lines>>
stats_vars == <<stats_clock, stats_xml, stats_before, stats_dir, stats_out, stats_cycle>>
hourly_vars == <<device_files, hourly_interface_dom, hourly_written, hourly_stderr,
                 hourly_exit>>
vars == <<name_vars, tput_vars, optics_vars, merge_vars, resolve_vars, fiber_vars,
          chassis_vars, pic_vars, prom_vars, stats_vars, hourly_vars>>

(***************************************************************************)
(* Shared encodings                                                        *)
(***************************************************************************)
None == <<>>
Some(v) == <<v>>
IsNone(o) == o = <<>>
Val(o) == o[1]

\* dict.get(k): the value, or None for a key that is not there
Get(d, k) == IF k \in DOMAIN d THEN d[k] ELSE None
\* d[k] = v
Put(d, k, v) == [x \in (DOMAIN d) \cup {k} |-> IF x = k THEN v ELSE d[x]]

\* no call
EmptyArgs == [k \in {} |-> None]
\* the characters of the interface names used below
ET == <<"e", "t">>
XE == <<"x", "e">>
GE == <<"g", "e">>

(***************************************************************************)
(* Interface name resolver: parse_interface_base_name                      *)
(***************************************************************************)
\* longest name, in characters, among the arbitrary strings tried
MaxNameLen == 4

\* ':' in s
HasColon(s) == \E i \in 1..Len(s) : s[i] = ":"
\* s.split(':')[0]: the text before the first colon
BeforeFirstColon(s) ==
    LET first == CHOOSE i \in 1..Len(s) :
                     s[i] = ":" /\ \A j \in 1..(i - 1) : s[j] # ":"
    IN  SubSeq(s, 1, first - 1)
\* s.rsplit(':', 1)[0]: the text before the last colon
BeforeLastColon(s) ==
    LET last == CHOOSE i \in 1..Len(s) :
                    s[i] = ":" /\ \A j \in (i + 1)..Len(s) : s[j] # ":"
    IN  SubSeq(s, 1, last - 1)
\* s.startswith(p)
StartsWith(s, p) == Len(s) >= Len(p) /\ SubSeq(s, 1, Len(p)) = p

\* a variant that cuts at the last colon instead of the first
BaseNameCutLast(name) ==
    LET base == IF HasColon(name) THEN BeforeLastColon(name) ELSE name
    IN  IF StartsWith(base, XE \o <<"-">>)
        THEN ET \o <<"-">> \o SubSeq(base, 4, Len(base))
        ELSE base

\* parse_interface_base_name(interface_name)
parse_interface_base_name(name) ==
    LET base == IF HasColon(name) THEN BeforeFirstColon(name) ELSE name
    IN  IF StartsWith(base, XE \o <<"-">>)
        THEN ET \o <<"-">> \o SubSeq(base, 4, Len(base))
        ELSE base

\* the prefixes JUNIPER_PREFIX_MAP can produce
Prefixes == {ET, XE, GE}
\* slot coordinates m/s/p, single- and multi-digit
Coordinates == { <<"0", "/", "0", "/", "6">>,
                 <<"1", "/", "2", "/", "4", "8">> }
\* no channel suffix, or :N
ChannelSuffixes == { <<>>, <<":", "0">>, <<":", "2">> }
IfName(p, c, s) == p \o <<"-">> \o c \o s
StructuredNames ==
    { IfName(p, c, s) : p \in Prefixes, c \in Coordinates, s \in ChannelSuffixes }
NameChars == {"x", "e", "-", ":", "0"}
ArbitraryNames == UNION { [1..n -> NameChars] : n \in 0..MaxNameLen }

NameInit ==
    /\ interface_name \in ArbitraryNames \cup StructuredNames
    /\ base_name = None
    /\ base_name2 = None
    /\ name_pc = "in"

\* base = parse_interface_base_name(interface_name)
Canonicalize ==
    /\ name_pc = "in"
    /\ base_name' = Some(parse_interface_base_name(interface_name))
    /\ name_pc' = "once"
    /\ UNCHANGED <<interface_name, base_name2>>

\* parse_interface_base_name(base), the call repeated on its own result
Recanonicalize ==
    /\ name_pc = "once"
    /\ base_name2' = Some(parse_interface_base_name(Val(base_name)))
    /\ name_pc' = "twice"
    /\ UNCHANGED <<interface_name, base_name>>

(***************************************************************************)
(* Interface name resolver: parse_juniper_interface_name                   *)
(***************************************************************************)
UpperCase == <<"A", "B", "C", "D", "E", "F", "G", "H", "I", "J", "K", "L", "M", "N", "O", "P", "Q", "R", "S", "T", "U", "V", "W", "X", "Y", "Z">>
LowerCase == <<"a", "b", "c", "d", "e", "f", "g", "h", "i", "j", "k", "l", "m", "n", "o", "p", "q", "r", "s", "t", "u", "v", "w", "x", "y", "z">>
\* the place of a character in an alphabet, 0 when it is not in it
IndexIn(alphabet, c) ==
    IF \E i \in 1..Len(alphabet) : alphabet[i] = c
    THEN CHOOSE i \in 1..Len(alphabet) : alphabet[i] = c
    ELSE 0
\* str.lower() and str.upper()
Lower(s) ==
    [i \in 1..Len(s) |->
        IF IndexIn(UpperCase, s[i]) = 0 THEN s[i] ELSE LowerCase[IndexIn(UpperCase, s[i])]]
Upper(s) ==
    [i \in 1..Len(s) |->
        IF IndexIn(LowerCase, s[i]) = 0 THEN s[i] ELSE UpperCase[IndexIn(LowerCase, s[i])]]
\* key in s
Contains(s, key) ==
    \E i \in 1..(Len(s) - Len(key) + 1) : SubSeq(s, i, i + Len(key) - 1) = key

\* JUNIPER_PREFIX_MAP, in its listing order (the order its items() are visited in)
JUNIPER_PREFIX_MAP ==
    <<<<<<"q", "f", "x", "5", "2", "4", "0">>, ET>>,
      <<<<"q", "f", "x", "5", "2", "3", "0">>, ET>>,
      <<<<"q", "f", "x", "5", "2", "2", "0">>, ET>>,
      <<<<"q", "f", "x", "5", "2", "1", "0">>, ET>>,
      <<<<"q", "f", "x", "5", "2", "0", "0">>, ET>>,
      <<<<"q", "f", "x", "5", "1", "3", "0">>, ET>>,
      <<<<"q", "f", "x", "5", "1", "2", "0">>, ET>>,
      <<<<"q", "f", "x", "5", "1", "1", "0">>, XE>>,
      <<<<"q", "f", "x", "5", "1", "0", "0">>, XE>>,
      <<<<"q", "f", "x", "1", "0", "k">>, ET>>,
      <<<<"m", "x">>, ET>>,
      <<<<"m", "x", "9", "6", "0">>, ET>>,
      <<<<"m", "x", "4", "8", "0">>, ET>>,
      <<<<"m", "x", "2", "4", "0">>, ET>>,
      <<<<"m", "x", "2", "0", "4">>, ET>>,
      <<<<"m", "x", "1", "5", "0">>, ET>>,
      <<<<"p", "t", "x">>, ET>>,
      <<<<"p", "t", "x", "1", "0", "k">>, ET>>,
      <<<<"p", "t", "x", "5", "0", "0", "0">>, ET>>,
      <<<<"p", "t", "x", "3", "0", "0", "0">>, ET>>,
      <<<<"p", "t", "x", "1", "0", "0", "0">>, ET>>,
      <<<<"e", "x">>, XE>>,
      <<<<"e", "x", "4", "3", "0", "0">>, GE>>,
      <<<<"e", "x", "4", "6", "0", "0">>, ET>>>>

\* parse_juniper_interface_name(fpc, pic, port, platform_hint)
parse_juniper_interface_name(fpc, pic, port, platform_hint) ==
    LET platform_lower == Lower(Val(platform_hint))
        matching == IF IsNone(platform_hint) \/ Val(platform_hint) = <<>> THEN {}
                    ELSE {i \in 1..Len(JUNIPER_PREFIX_MAP) :
                              Contains(platform_lower, JUNIPER_PREFIX_MAP[i][1])}
        prefix == IF matching = {} THEN ET
                  ELSE JUNIPER_PREFIX_MAP[
                           CHOOSE i \in matching : \A j \in matching : i <= j][2]
    IN  prefix \o <<"-">> \o fpc \o <<"/">> \o pic \o <<"/">> \o port

\* platform hints: none, empty, table keys in either case, longer model names,
\* and a family the table does not know
PlatformHints ==
    {None,
     Some(<<>>),
     Some(<<"q", "f", "x", "5", "2", "4", "0">>),
     Some(<<"Q", "F", "X", "5", "1", "1", "0">>),
     Some(<<"q", "f", "x", "5", "1", "0", "0">>),
     Some(<<"e", "x", "4", "3", "0", "0">>),
     Some(<<"E", "X", "4", "3", "0", "0", "-", "4", "8", "T">>),
     Some(<<"e", "x", "4", "6", "0", "0">>),
     Some(<<"e", "x", "2", "3", "0", "0">>),
     Some(<<"m", "x", "9", "6", "0">>),
     Some(<<"v", "m", "x">>),
     Some(<<"p", "t", "x", "1", "0", "k">>),
     Some(<<"s", "r", "x", "3", "0", "0">>)}
\* FPC, PIC and port numbers as the chassis inventory spells them
FpcNumbers == {<<"0">>, <<"1">>}
PicNumbers == {<<"0">>, <<"2">>}
PortNumbers == {<<"6">>, <<"4", "8">>}

ResolveInit ==
    /\ \E fpc \in FpcNumbers, pic \in PicNumbers, port \in PortNumbers,
          platform_hint \in PlatformHints :
           resolve_args = [fpc |-> fpc, pic |-> pic, port |-> port,
                           platform_hint |-> platform_hint]
    /\ resolved_name = None

ResolveIdle ==
    /\ resolve_args = EmptyArgs
    /\ resolved_name = None

\* interface_name = parse_juniper_interface_name(fpc, pic, port, platform_hint)
ParseJuniperInterfaceName ==
    /\ resolve_args # EmptyArgs
    /\ IsNone(resolved_name)
    /\ resolved_name' = Some(parse_juniper_interface_name(
                                 resolve_args.fpc, resolve_args.pic, resolve_args.port,
                                 resolve_args.platform_hint))
    /\ UNCHANGED resolve_args

(***************************************************************************)
(* Fiber type classifier: determine_fiber_type                             *)
(***************************************************************************)
FIBER_TYPE_MULTI_MODE == "FIBER_TYPE_MULTI_MODE"
FIBER_TYPE_SINGLE_MODE == "FIBER_TYPE_SINGLE_MODE"

\* s.replace(c, '')
RECURSIVE Without(_, _)
Without(s, c) ==
    IF s = <<>> THEN <<>>
    ELSE IF Head(s) = c THEN Without(Tail(s), c)
    ELSE <<Head(s)>> \o Without(Tail(s), c)
\* text.upper().replace('-', '').replace(' ', '')
Squeezed(text) == Without(Without(Upper(text), "-"), " ")
\* any(pattern in text for pattern in patterns)
AnyIn(patterns, text) == \E i \in 1..Len(patterns) : Contains(text, patterns[i])

\* the keyword lists of the media-type step, lines 51-58 and 63-76
MediaMmfPatterns ==
    <<<<"S", "R">>,
      <<"S", "X">>,
      <<"V", "C", "S", "E", "L">>,
      <<"8", "5", "0", "N", "M">>,
      <<"M", "M", "F">>,
      <<"M", "U", "L", "T", "I", "M", "O", "D", "E">>>>
MediaSmfPatterns ==
    <<<<"L", "R">>,
      <<"E", "R">>,
      <<"Z", "R">>,
      <<"L", "X">>,
      <<"E", "X">>,
      <<"Z", "X">>,
      <<"1", "3", "1", "0", "N", "M">>,
      <<"1", "5", "5", "0", "N", "M">>,
      <<"C", "W", "D", "M">>,
      <<"D", "W", "D", "M">>,
      <<"S", "M", "F">>,
      <<"S", "I", "N", "G", "L", "E", "M", "O", "D", "E">>>>
\* the keyword lists of the description step, lines 85 and 90-94
DescMmfPatterns ==
    <<<<"S", "R">>,
      <<"S", "X">>,
      <<"V", "C", "S", "E", "L">>,
      <<"8", "5", "0", "N", "M">>,
      <<"M", "M", "F">>,
      <<"M", "U", "L", "T", "I", "M", "O", "D", "E">>,
      <<"S", "H", "O", "R", "T">>>>
DescSmfPatterns ==
    <<<<"L", "R">>,
      <<"E", "R">>,
      <<"Z", "R">>,
      <<"L", "X">>,
      <<"E", "X">>,
      <<"Z", "X">>,
      <<"1", "3", "1", "0", "N", "M">>,
      <<"1", "5", "5", "0", "N", "M">>,
      <<"C", "W", "D", "M">>,
      <<"D", "W", "D", "M">>,
      <<"S", "M", "F">>,
      <<"S", "I", "N", "G", "L", "E", "M", "O", "D", "E">>,
      <<"L", "O", "N", "G">>,
      <<"E", "X", "T", "E", "N", "D", "E", "D">>>>

\* the description step and the final None, lines 80-98
DescriptionStep(description) ==
    IF IsNone(description) \/ Val(description) = <<>> THEN None
    ELSE IF AnyIn(DescMmfPatterns, Squeezed(Val(description)))
         THEN Some(FIBER_TYPE_MULTI_MODE)
    ELSE IF AnyIn(DescSmfPatterns, Squeezed(Val(description)))
         THEN Some(FIBER_TYPE_SINGLE_MODE)
    ELSE None

\* a variant of the media-type step that tries the single-mode keywords first
MediaStepSmfFirst(media_type, description) ==
    IF IsNone(media_type) \/ Val(media_type) = <<>> THEN DescriptionStep(description)
    ELSE IF AnyIn(MediaSmfPatterns, Squeezed(Val(media_type)))
         THEN Some(FIBER_TYPE_SINGLE_MODE)
    ELSE IF AnyIn(MediaMmfPatterns, Squeezed(Val(media_type)))
         THEN Some(FIBER_TYPE_MULTI_MODE)
    ELSE DescriptionStep(description)

\* a variant that takes multi-mode from a keyword of either text before it looks
\* for single-mode keywords
MediaStepUnion(media_type, description) ==
    LET texts == {Squeezed(Val(t)) : t \in {u \in {media_type, description} :
                                              ~IsNone(u) /\ Val(u) # <<>>}}
    IN  IF \E t \in texts : AnyIn(DescMmfPatterns, t) THEN Some(FIBER_TYPE_MULTI_MODE)
        ELSE IF \E t \in texts : AnyIn(DescSmfPatterns, t)
             THEN Some(FIBER_TYPE_SINGLE_MODE)
        ELSE None

\* the media-type step and what follows it, lines 46-98
MediaStep(media_type, description) ==
    IF IsNone(media_type) \/ Val(media_type) = <<>> THEN DescriptionStep(description)
    ELSE IF AnyIn(MediaMmfPatterns, Squeezed(Val(media_type)))
         THEN Some(FIBER_TYPE_MULTI_MODE)
    ELSE IF AnyIn(MediaSmfPatterns, Squeezed(Val(media_type)))
         THEN Some(FIBER_TYPE_SINGLE_MODE)
    ELSE DescriptionStep(description)

\* a variant that asks the wavelength only when the texts say nothing
FiberTypeWavelengthLast(media_type, description, wavelength_nm) ==
    IF ~IsNone(MediaStep(media_type, description)) THEN MediaStep(media_type, description)
    ELSE IF IsNone(wavelength_nm) THEN None
    ELSE IF Val(wavelength_nm) = 850 THEN Some(FIBER_TYPE_MULTI_MODE)
    ELSE IF Val(wavelength_nm) >= 1270 /\ Val(wavelength_nm) <= 1610
         THEN Some(FIBER_TYPE_SINGLE_MODE)
    ELSE None

\* determine_fiber_type(media_type, description, wavelength_nm): None, or Some of
\* one of the two fiber types
determine_fiber_type(media_type, description, wavelength_nm) ==
    IF ~IsNone(wavelength_nm) /\ Val(wavelength_nm) # 0 /\ Val(wavelength_nm) = 850
    THEN Some(FIBER_TYPE_MULTI_MODE)
    ELSE IF ~IsNone(wavelength_nm) /\ Val(wavelength_nm) # 0
            /\ Val(wavelength_nm) \in {1310, 1550}
    THEN Some(FIBER_TYPE_SINGLE_MODE)
    ELSE IF ~IsNone(wavelength_nm) /\ Val(wavelength_nm) # 0
            /\ 1270 <= Val(wavelength_nm) /\ Val(wavelength_nm) <= 1610
    THEN Some(FIBER_TYPE_SINGLE_MODE)
    ELSE MediaStep(media_type, description)

\* media types and descriptions, each with whether a multi-mode keyword and
\* whether a single-mode keyword of its step occurs in it
MediaTexts ==
    <<>> :> <<FALSE, FALSE>>
    @@ <<"1", "0", "0", "G", "B", "A", "S", "E", "-", "S", "R", "4">> :> <<TRUE, FALSE>>
    @@ <<"1", "0", "G", "B", "A", "S", "E", "-", "L", "R">> :> <<FALSE, TRUE>>
    @@ <<"1", "0", "0", "g", "-", "l", "r", "4">> :> <<FALSE, TRUE>>
    @@ <<"E", "X", "-", "S", "F", "P", "-", "1", "0", "G", "E", "-", "S", "R">> :> <<TRUE, TRUE>>
    @@ <<"m", "u", "l", "t", "i", "-", "m", "o", "d", "e">> :> <<TRUE, FALSE>>
    @@ <<"1", "0", "0", "G", "B", "A", "S", "E", "-", "C", "R", "4">> :> <<FALSE, FALSE>>
    @@ <<"4", "0", "G", " ", "S", "-", "R", "4">> :> <<TRUE, FALSE>>
DescriptionTexts ==
    <<>> :> <<FALSE, FALSE>>
    @@ <<"Q", "S", "F", "P", "-", "1", "0", "0", "G", "-", "S", "R", "4">> :> <<TRUE, FALSE>>
    @@ <<"S", "F", "P", "+", "-", "1", "0", "G", "-", "L", "R">> :> <<FALSE, TRUE>>
    @@ <<"s", "h", "o", "r", "t", " ", "e", "x", "t", "e", "n", "d", "e", "d">> :> <<TRUE, TRUE>>
    @@ <<"l", "o", "n", "g", " ", "h", "a", "u", "l">> :> <<FALSE, TRUE>>
    @@ <<"U", "N", "K", "N", "O", "W", "N">> :> <<FALSE, FALSE>>
    @@ <<"J", "U", "N", "I", "P", "E", "R", " ", "Q", "S", "F", "P", "-", "1", "0", "0", "G", "-", "C", "R", "4">> :> <<FALSE, TRUE>>
\* wavelengths in nanometres: none, zero, the three named values, the ends of the
\* single-mode range, and values outside it
Wavelengths == {None} \cup {Some(w) : w \in {0, 850, 900, 1269, 1270, 1310, 1400, 1550,
                                             1610, 1611}}

FiberInit ==
    /\ \E media_type \in {None} \cup {Some(t) : t \in DOMAIN MediaTexts},
          description \in {None} \cup {Some(t) : t \in DOMAIN DescriptionTexts},
          wavelength_nm \in Wavelengths :
           fiber_args = [media_type |-> media_type, description |-> description,
                         wavelength_nm |-> wavelength_nm]
    /\ fiber_type = None
    /\ fiber_pc = "in"

FiberIdle ==
    /\ fiber_args = EmptyArgs
    /\ fiber_type = None
    /\ fiber_pc = "idle"

\* fiber_type = determine_fiber_type(media_type, description, wavelength_nm)
DetermineFiberType ==
    /\ fiber_pc = "in"
    /\ fiber_type' = determine_fiber_type(fiber_args.media_type, fiber_args.description,
                                          fiber_args.wavelength_nm)
    /\ fiber_pc' = "done"
    /\ UNCHANGED fiber_args

(***************************************************************************)
(* Counter-delta calculator: ThroughputCalculator                          *)
(*                                                                         *)
(* The state directory is a map from file name to file content.  Reading   *)
(* and writing the files is taken to succeed (the IOError and              *)
(* JSONDecodeError handlers belong to the storage collaborator).  The      *)
(* saved fields the calculator never reads back (collection_time, rx_bps,  *)
(* tx_bps, rx_pps, tx_pps) are left out of the saved state.  A rate and an *)
(* interval are exact fractions <<numerator, denominator>> in lowest       *)
(* terms.                                                                  *)
(***************************************************************************)
\* timestamps are multiples of five seconds, in microseconds, up to MaxTick of them
MaxTick == 3
\* time_delta_sec = (...) / 1_000_000
MICROS == 1000000

Abs(n) == IF n < 0 THEN -n ELSE n
RECURSIVE Gcd(_, _)
Gcd(a, b) == IF b = 0 THEN a ELSE Gcd(b, a % b)
\* n / d as a fraction in lowest terms, d > 0
Frac(n, d) == LET g == Gcd(Abs(n), d) IN <<n \div g, d \div g>>

R1 == <<"r", "1">>
Devices == {R1}
TputIfNames == { IfName(ET, <<"0", "/", "0", "/", "6">>, <<>>),
                 IfName(ET, <<"0", "/", "0", "/", "6">>, <<":", "1">>) }
Keys == Devices \X TputIfNames
Timestamps == { k * 5000000 : k \in 1..MaxTick }
CcwCounts == {40, 100}
NccwCounts == {0}

\* interface.replace('/', '_').replace(':', '_')
safe_interface(interface) ==
    [i \in 1..Len(interface) |->
        IF interface[i] \in {"/", ":"} THEN "_" ELSE interface[i]]
\* a variant that names the file after the port, without the channel
StateFileByPort(device, interface) ==
    device \o <<"_">>
        \o safe_interface(IF HasColon(interface) THEN BeforeFirstColon(interface)
                          ELSE interface)
        \o <<".", "j", "s", "o", "n">>

\* ThroughputCalculator._get_state_file
get_state_file(device, interface) ==
    device \o <<"_">> \o safe_interface(interface) \o <<".", "j", "s", "o", "n">>
StateFiles == { get_state_file(k[1], k[2]) : k \in Keys }

\* ThroughputCalculator._load_previous_state
load_previous_state(dir, device, interface) ==
    LET f == get_state_file(device, interface)
    IN  IF f \in DOMAIN dir THEN dir[f] ELSE None
\* ThroughputCalculator._save_current_state
save_current_state(dir, device, interface, state) ==
    Put(dir, get_state_file(device, interface), Some(state))

\* the interface records handed to the calculator: device, if_name and
\* timestamp always there, each FEC counter there or not
InterfaceData ==
    { [k \in {"device", "if_name", "timestamp"} \cup cs |->
          CASE k = "device" -> key[1]
            [] k = "if_name" -> key[2]
            [] k = "timestamp" -> ts
            [] k = "fec_ccw_count" -> ccw
            [] k = "fec_nccw_count" -> nccw] :
        key \in Keys, ts \in Timestamps, ccw \in CcwCounts, nccw \in NccwCounts,
        cs \in SUBSET {"fec_ccw_count", "fec_nccw_count"} }

\* an optional number (None or Some(n)) out of dict.get
GetNum(d, k) == IF k \in DOMAIN d THEN Some(d[k]) ELSE None

\* current_state, lines 78-90
current_state(interface_data) ==
    [timestamp |-> interface_data["timestamp"],
     fec_ccw_count |-> GetNum(interface_data, "fec_ccw_count"),
     fec_nccw_count |-> GetNum(interface_data, "fec_nccw_count")]

\* one counter's delta and rate, lines 98-102 and 104-108
WithDelta(data, cur, prev, counter, delta_key, rate_key, dt_micros) ==
    IF ~IsNone(cur[counter]) /\ ~IsNone(prev[counter])
    THEN LET delta == Val(cur[counter]) - Val(prev[counter])
         IN  Put(Put(data, delta_key, Some(delta)),
                 rate_key, Some(Frac(delta * MICROS, dt_micros)))
    ELSE data

\* a variant that reports 0 instead of None on a first collection
DeltasZeroOnColdStart(interface_data, prev_state) ==
    IF ~IsNone(prev_state) /\ Val(prev_state).timestamp # 0
    THEN LET cur == current_state(interface_data)
             prev == Val(prev_state)
             dt == cur.timestamp - prev.timestamp
         IN  IF dt > 0
             THEN Put(WithDelta(WithDelta(interface_data, cur, prev,
                          "fec_ccw_count", "fec_ccw_delta", "fec_ccw_rate", dt),
                          cur, prev,
                          "fec_nccw_count", "fec_nccw_delta", "fec_nccw_rate", dt),
                      "collection_interval_sec", Some(Frac(dt, MICROS)))
             ELSE interface_data
    ELSE Put(Put(Put(Put(Put(interface_data,
             "fec_ccw_delta", Some(0)), "fec_nccw_delta", Some(0)),
             "fec_ccw_rate", Some(<<0, 1>>)), "fec_nccw_rate", Some(<<0, 1>>)),
             "collection_interval_sec", None)

\* a variant that clamps a negative delta to 0
WithDeltaClamped(data, cur, prev, counter, delta_key, rate_key, dt_micros) ==
    IF ~IsNone(cur[counter]) /\ ~IsNone(prev[counter])
    THEN LET d == Val(cur[counter]) - Val(prev[counter])
             delta == IF d < 0 THEN 0 ELSE d
         IN  Put(Put(data, delta_key, Some(delta)),
                 rate_key, Some(Frac(delta * MICROS, dt_micros)))
    ELSE data
DeltasClamped(interface_data, prev_state) ==
    IF ~IsNone(prev_state) /\ Val(prev_state).timestamp # 0
    THEN LET cur == current_state(interface_data)
             prev == Val(prev_state)
             dt == cur.timestamp - prev.timestamp
         IN  IF dt > 0
             THEN Put(WithDeltaClamped(WithDeltaClamped(interface_data, cur, prev,
                          "fec_ccw_count", "fec_ccw_delta", "fec_ccw_rate", dt),
                          cur, prev,
                          "fec_nccw_count", "fec_nccw_delta", "fec_nccw_rate", dt),
                      "collection_interval_sec", Some(Frac(dt, MICROS)))
             ELSE interface_data
    ELSE Put(Put(Put(Put(Put(interface_data,
             "fec_ccw_delta", None), "fec_nccw_delta", None),
             "fec_ccw_rate", None), "fec_nccw_rate", None),
             "collection_interval_sec", None)

\* a variant that reports the absolute interval when the clock went backwards
DeltasOnAnyInterval(interface_data, prev_state) ==
    IF ~IsNone(prev_state) /\ Val(prev_state).timestamp # 0
    THEN LET cur == current_state(interface_data)
             prev == Val(prev_state)
             dt == cur.timestamp - prev.timestamp
         IN  IF dt # 0
             THEN Put(WithDelta(WithDelta(interface_data, cur, prev,
                          "fec_ccw_count", "fec_ccw_delta", "fec_ccw_rate", Abs(dt)),
                          cur, prev,
                          "fec_nccw_count", "fec_nccw_delta", "fec_nccw_rate", Abs(dt)),
                      "collection_interval_sec", Some(Frac(Abs(dt), MICROS)))
             ELSE interface_data
    ELSE Put(Put(Put(Put(Put(interface_data,
             "fec_ccw_delta", None), "fec_nccw_delta", None),
             "fec_ccw_rate", None), "fec_nccw_rate", None),
             "collection_interval_sec", None)

\* the interface_data calculate_throughput returns, lines 92-118
throughput_deltas(interface_data, prev_state) ==
    IF ~IsNone(prev_state) /\ Val(prev_state).timestamp # 0
    THEN LET cur == current_state(interface_data)
             prev == Val(prev_state)
             dt == cur.timestamp - prev.timestamp
         IN  IF dt > 0
             THEN Put(WithDelta(WithDelta(interface_data, cur, prev,
                          "fec_ccw_count", "fec_ccw_delta", "fec_ccw_rate", dt),
                          cur, prev,
                          "fec_nccw_count", "fec_nccw_delta", "fec_nccw_rate", dt),
                      "collection_interval_sec", Some(Frac(dt, MICROS)))
             ELSE interface_data
    ELSE Put(Put(Put(Put(Put(interface_data,
             "fec_ccw_delta", None), "fec_nccw_delta", None),
             "fec_ccw_rate", None), "fec_nccw_rate", None),
             "collection_interval_sec", None)

\* a variant that saves the state only on a first collection
SaveOnlyFirst(dir, interface_data) ==
    LET prev == load_previous_state(dir, interface_data["device"],
                                    interface_data["if_name"])
    IN  IF ~IsNone(prev)
        THEN dir
        ELSE save_current_state(dir, interface_data["device"],
                                interface_data["if_name"],
                                current_state(interface_data))

\* the state directory calculate_throughput leaves behind, line 121
state_dir_after(dir, interface_data) ==
    save_current_state(dir, interface_data["device"], interface_data["if_name"],
                       current_state(interface_data))

TputInit ==
    /\ state_dir = [f \in StateFiles |-> None]
    /\ tput_in = None
    /\ tput_prev = None
    /\ tput_out = None
    /\ observed = [k \in Keys |-> None]
    /\ observed_before = None

\* ThroughputCalculator.calculate_throughput(interface_data); process_metrics
\* calls it once per interface record of a cycle
calculate_throughput(interface_data) ==
    LET device == interface_data["device"]
        if_name == interface_data["if_name"]
        prev_state == load_previous_state(state_dir, device, if_name)
    IN  /\ tput_in' = Some(interface_data)
        /\ tput_prev' = prev_state
        /\ tput_out' = Some(throughput_deltas(interface_data, prev_state))
        /\ state_dir' = state_dir_after(state_dir, interface_data)
        /\ observed_before' = observed[<<device, if_name>>]
        /\ observed' = [observed EXCEPT ![<<device, if_name>>] = Some(interface_data)]

CalculateThroughput == \E interface_data \in InterfaceData :
                           calculate_throughput(interface_data)

(***************************************************************************)
(* Optical diagnostics extractor: parse_optical_diagnostics                *)
(*                                                                         *)
(* A physical-interface element is [name, diag]: the text of its name      *)
(* child (None when the child is missing or empty) and its                 *)
(* optics-diagnostics child (None when missing).  An optics-diagnostics    *)
(* element is [marker, kind, seed, lanes]: whether it has an               *)
(* optic-diagnostics-not-available child, the text its measurement         *)
(* children carry, and its optics-diagnostics-lane-values descendants in   *)
(* document order.  A text is a sequence of whitespace-delimited tokens,   *)
(* <<"num", n>> for a token float() accepts, <<"int", n>> for one int()    *)
(* and float() accept, <<"word", w>> for any other.  The clock reading     *)
(* stored as timestamp is the same throughout a call.                      *)
(***************************************************************************)
\* physical-interface elements in a document
MaxPhys == 1
\* optics-diagnostics-lane-values elements in one optics-diagnostics element
MaxLaneEls == 2

UNKNOWN == <<"u", "n", "k", "n", "o", "w", "n">>
DEVICE == "10.209.3.39"

\* metric name and source tag of the interface-level thresholds and of voltage,
\* lines 87-135 and 154-155
ThresholdTags ==
    [temperature_high_alarm |-> "laser-temperature-high-alarm-threshold",
     temperature_low_alarm |-> "laser-temperature-low-alarm-threshold",
     temperature_high_warn |-> "laser-temperature-high-warn-threshold",
     temperature_low_warn |-> "laser-temperature-low-warn-threshold",
     voltage_high_alarm |-> "module-voltage-high-alarm-threshold",
     voltage_low_alarm |-> "module-voltage-low-alarm-threshold",
     voltage_high_warn |-> "module-voltage-high-warn-threshold",
     voltage_low_warn |-> "module-voltage-low-warn-threshold",
     tx_power_high_alarm |-> "laser-tx-power-high-alarm-threshold-dbm",
     tx_power_low_alarm |-> "laser-tx-power-low-alarm-threshold-dbm",
     tx_power_high_warn |-> "laser-tx-power-high-warn-threshold-dbm",
     tx_power_low_warn |-> "laser-tx-power-low-warn-threshold-dbm",
     rx_power_high_alarm |-> "laser-rx-power-high-alarm-threshold-dbm",
     rx_power_low_alarm |-> "laser-rx-power-low-alarm-threshold-dbm",
     rx_power_high_warn |-> "laser-rx-power-high-warn-threshold-dbm",
     rx_power_low_warn |-> "laser-rx-power-low-warn-threshold-dbm",
     tx_bias_high_alarm |-> "laser-bias-current-high-alarm-threshold",
     tx_bias_low_alarm |-> "laser-bias-current-low-alarm-threshold",
     tx_bias_high_warn |-> "laser-bias-current-high-warn-threshold",
     tx_bias_low_warn |-> "laser-bias-current-low-warn-threshold",
     voltage |-> "module-voltage"]
\* metric name and source tag of the DOM measurements, lines 199-217
DomTags ==
    [rx_power_mw |-> "laser-rx-optical-power",
     rx_power |-> "laser-rx-optical-power-dbm",
     tx_power_mw |-> "laser-output-power",
     tx_power |-> "laser-output-power-dbm",
     tx_bias |-> "laser-bias-current"]
DomFields == DOMAIN DomTags
\* the junos:celsius attribute of module-temperature, lines 139-151
CELSIUS == "module-temperature@celsius"

\* every tag read, in a fixed order
TagList ==
    <<"laser-rx-optical-power", "laser-rx-optical-power-dbm", "laser-output-power",
      "laser-output-power-dbm", "laser-bias-current", CELSIUS, "module-voltage",
      "laser-temperature-high-alarm-threshold", "laser-temperature-low-alarm-threshold",
      "laser-temperature-high-warn-threshold", "laser-temperature-low-warn-threshold",
      "module-voltage-high-alarm-threshold", "module-voltage-low-alarm-threshold",
      "module-voltage-high-warn-threshold", "module-voltage-low-warn-threshold",
      "laser-tx-power-high-alarm-threshold-dbm", "laser-tx-power-low-alarm-threshold-dbm",
      "laser-tx-power-high-warn-threshold-dbm", "laser-tx-power-low-warn-threshold-dbm",
      "laser-rx-power-high-alarm-threshold-dbm", "laser-rx-power-low-alarm-threshold-dbm",
      "laser-rx-power-high-warn-threshold-dbm", "laser-rx-power-low-warn-threshold-dbm",
      "laser-bias-current-high-alarm-threshold", "laser-bias-current-low-alarm-threshold",
      "laser-bias-current-high-warn-threshold", "laser-bias-current-low-warn-threshold">>
\* the number a numeric child of an element carries: its own for every tag
TagNumber(tag) == CHOOSE i \in 1..Len(TagList) : TagList[i] = tag
\* findtext_ns(element, tag) on an optics-diagnostics or lane-values element
findtext_ns(element, tag) ==
    CASE element.kind = "numeric" ->
             Some(<< <<"num", element.seed + TagNumber(tag)>>, <<"word", "unit">> >>)
      [] element.kind = "words" ->
             Some(<< <<"word", "Not">>, <<"word", "supported">> >>)
      [] element.kind = "missing" -> None

\* extract_numeric_value(text)
extract_numeric_value(text) ==
    IF IsNone(text) THEN None
    ELSE IF Len(Val(text)) = 0 THEN None
    ELSE IF Val(text)[1][1] \in {"num", "int"} THEN Some(Val(text)[1][2])
    ELSE None

\* metrics.update(additional_metadata) when additional_metadata is given
WithMetadata(metrics, metadata) ==
    IF IsNone(metadata) THEN metrics
    ELSE [k \in (DOMAIN metrics) \cup (DOMAIN Val(metadata)) |->
             IF k \in DOMAIN Val(metadata) THEN Val(metadata)[k] ELSE metrics[k]]

\* findtext_ns(phys_interface, 'name', 'unknown')
InterfaceNameOf(phys_interface) ==
    IF IsNone(phys_interface.name) THEN UNKNOWN ELSE Val(phys_interface.name)

\* parse_interface_metrics(phys_interface, device, additional_metadata):
\* None, or Some(metrics)
parse_interface_metrics(phys_interface, device, metadata) ==
    IF IsNone(phys_interface.diag) THEN None
    ELSE IF Val(phys_interface.diag).marker THEN None
    ELSE LET optics_diag == Val(phys_interface.diag)
             keys == {"if_name", "device", "timestamp", "temperature"}
                         \cup DOMAIN ThresholdTags
             metrics ==
                 [k \in keys |->
                     CASE k = "if_name" -> InterfaceNameOf(phys_interface)
                       [] k = "device" -> device
                       [] k = "timestamp" -> 1
                       [] k = "temperature" ->
                              extract_numeric_value(findtext_ns(optics_diag, CELSIUS))
                       [] OTHER ->
                              extract_numeric_value(
                                  findtext_ns(optics_diag, ThresholdTags[k]))]
         IN  Some(WithMetadata(metrics, metadata))

\* int(lane_index) succeeds
IsIntText(text) == Len(text) = 1 /\ text[1][1] = "int"
\* findtext_ns(lane, 'lane-index', '0')
LaneIndexText(lane) ==
    IF IsNone(lane.lane_index) THEN << <<"int", 0>> >> ELSE Val(lane.lane_index)

\* the metrics of one optics-diagnostics-lane-values element, lines 190-221
LaneMetrics(lane, if_name, device, metadata) ==
    LET keys == {"if_name", "device", "lane", "timestamp"} \cup DomFields
        metrics ==
            [k \in keys |->
                CASE k = "if_name" -> if_name
                  [] k = "device" -> device
                  [] k = "lane" -> LaneIndexText(lane)[1][2]
                  [] k = "timestamp" -> 1
                  [] OTHER -> extract_numeric_value(findtext_ns(lane, DomTags[k]))]
    IN  WithMetadata(metrics, metadata)

\* a variant that numbers the lanes by their position, from 0
LanesNumberedByPosition(phys_interface, device, metadata) ==
    IF IsNone(phys_interface.diag) THEN [raised |-> FALSE, lanes |-> <<>>]
    ELSE IF Val(phys_interface.diag).marker THEN [raised |-> FALSE, lanes |-> <<>>]
    ELSE LET lanes == Val(phys_interface.diag).lanes
         IN  IF \E i \in 1..Len(lanes) : ~IsIntText(LaneIndexText(lanes[i]))
             THEN [raised |-> TRUE, lanes |-> <<>>]
             ELSE [raised |-> FALSE,
                   lanes |-> [i \in 1..Len(lanes) |->
                                 [LaneMetrics(lanes[i], InterfaceNameOf(phys_interface),
                                              device, metadata)
                                      EXCEPT !["lane"] = i - 1]]]

\* a variant that does not look for the not-available marker
LanesDespiteMarker(phys_interface, device, metadata) ==
    IF IsNone(phys_interface.diag) THEN [raised |-> FALSE, lanes |-> <<>>]
    ELSE LET lanes == Val(phys_interface.diag).lanes
         IN  IF \E i \in 1..Len(lanes) : ~IsIntText(LaneIndexText(lanes[i]))
             THEN [raised |-> TRUE, lanes |-> <<>>]
             ELSE [raised |-> FALSE,
                   lanes |-> [i \in 1..Len(lanes) |->
                                 LaneMetrics(lanes[i], InterfaceNameOf(phys_interface),
                                             device, metadata)]]

\* parse_lane_metrics(phys_interface, device, additional_metadata):
\* [raised, lanes]; raised when int(lane_index) raises ValueError
parse_lane_metrics(phys_interface, device, metadata) ==
    IF IsNone(phys_interface.diag) THEN [raised |-> FALSE, lanes |-> <<>>]
    ELSE IF Val(phys_interface.diag).marker THEN [raised |-> FALSE, lanes |-> <<>>]
    ELSE LET lanes == Val(phys_interface.diag).lanes
         IN  IF \E i \in 1..Len(lanes) : ~IsIntText(LaneIndexText(lanes[i]))
             THEN [raised |-> TRUE, lanes |-> <<>>]
             ELSE [raised |-> FALSE,
                   lanes |-> [i \in 1..Len(lanes) |->
                                 LaneMetrics(lanes[i], InterfaceNameOf(phys_interface),
                                             device, metadata)]]

\* the loop of parse_optical_diagnostics over the physical interfaces, lines 247-264
RECURSIVE ParseInterfaces(_, _, _)
ParseInterfaces(interfaces, device, metadata) ==
    IF interfaces = <<>> THEN [raised |-> FALSE, interfaces |-> <<>>, lanes |-> <<>>]
    ELSE LET phys_interface == Head(interfaces)
             interface_data == parse_interface_metrics(phys_interface, device, metadata)
             lanes_data == parse_lane_metrics(phys_interface, device, metadata)
             rest == ParseInterfaces(Tail(interfaces), device, metadata)
         IN  IF lanes_data.raised \/ rest.raised
             THEN [raised |-> TRUE, interfaces |-> <<>>, lanes |-> <<>>]
             ELSE [raised |-> FALSE,
                   interfaces |-> (IF IsNone(interface_data) THEN <<>>
                                   ELSE <<Val(interface_data)>>) \o rest.interfaces,
                   lanes |-> lanes_data.lanes \o rest.lanes]

\* parse_optical_diagnostics(xml_content, device, additional_metadata):
\* [raised, result]
parse_optical_diagnostics(xml, device, metadata) ==
    IF IsNone(xml)
    THEN [raised |-> FALSE, result |-> Some([interfaces |-> <<>>, lanes |-> <<>>])]
    ELSE LET r == ParseInterfaces(Val(xml), device, metadata)
         IN  IF r.raised
             THEN [raised |-> TRUE, result |-> None]
             ELSE [raised |-> FALSE,
                   result |-> Some([interfaces |-> r.interfaces, lanes |-> r.lanes])]

\* what parse_optical_diagnostics prints to sys.stderr, line 244
optics_parse_errors(xml) == IF IsNone(xml) THEN <<"Error parsing XML">> ELSE <<>>

\* the documents tried: the i-th physical interface is named et-0/0/i or has no
\* name; its lane-index texts are missing, "0", "3" or "x"
Digits == <<"1", "2", "3", "4", "5", "6", "7", "8", "9">>
NameAt(i) == IfName(ET, <<"0", "/", "0", "/", Digits[i]>>, <<>>)
LaneIndexTexts == { None, Some(<< <<"int", 0>> >>), Some(<< <<"int", 3>> >>),
                    Some(<< <<"word", "x">> >>) }
LaneIndexLists ==
    { idxs \in UNION { [1..n -> LaneIndexTexts] : n \in 0..MaxLaneEls } :
          \A i, j \in DOMAIN idxs : i # j => idxs[i] # idxs[j] }
DiagShapes == { <<FALSE, "numeric">>, <<FALSE, "words">>, <<FALSE, "missing">>,
                <<TRUE, "numeric">> }
LaneElements(i, kind, idxs) ==
    [j \in 1..Len(idxs) |->
        [lane_index |-> idxs[j], kind |-> kind, seed |-> 1000 * i + 100 * j]]
\* what a physical interface holds: <<has a name, has diagnostics, shape, lane-index
\* texts>>; one without name is tried without lanes only, one without diagnostics
\* has no shape to choose
PhysChoices ==
    { c \in BOOLEAN \X BOOLEAN \X DiagShapes \X LaneIndexLists :
          /\ ~c[1] => c[4] = <<>>
          /\ ~c[2] => (c[3] = <<FALSE, "numeric">> /\ c[4] = <<>>) }
\* a named physical interface with numeric diagnostics and no lanes, which a
\* document may end with
PlainChoice == <<TRUE, TRUE, <<FALSE, "numeric">>, <<>>>>
\* the i-th physical-interface element of a document, built from a choice
PhysAt(i, c) ==
    [name |-> IF c[1] THEN Some(NameAt(i)) ELSE None,
     diag |-> IF c[2]
              THEN Some([marker |-> c[3][1], kind |-> c[3][2], seed |-> 1000 * i,
                         lanes |-> LaneElements(i, c[3][2], c[4])])
              ELSE None]
Metadata == { None, Some([site |-> "lab"]) }

OpticsInit ==
    /\ \/ xml_content = None
       \/ \E n \in 0..MaxPhys : \E choice \in [1..n -> PhysChoices], last \in BOOLEAN :
              xml_content = Some([i \in 1..n |-> PhysAt(i, choice[i])]
                                 \o (IF last THEN <<PhysAt(n + 1, PlainChoice)>>
                                     ELSE <<>>))
    /\ additional_metadata \in Metadata
    /\ optics_result = None
    /\ optics_pc = "in"
    /\ optics_stderr = <<>>

OpticsIdle ==
    /\ xml_content = None
    /\ additional_metadata = None
    /\ optics_result = None
    /\ optics_pc = "idle"
    /\ optics_stderr = <<>>

\* result = parse_optical_diagnostics(xml_content, args.device, additional_metadata)
ParseOpticalDiagnostics ==
    /\ optics_pc = "in"
    /\ LET r == parse_optical_diagnostics(xml_content, DEVICE, additional_metadata)
       IN  /\ optics_result' = r.result
           /\ optics_pc' = IF r.raised THEN "raised" ELSE "done"
    /\ optics_stderr' = optics_stderr \o optics_parse_errors(xml_content)
    /\ UNCHANGED <<xml_content, additional_metadata>>

(***************************************************************************)
(* Metadata fusion engine: merge_metadata                                  *)
(*                                                                         *)
(* A transceiver record of chassis_inv or pic_detail maps each of its      *)
(* fields to None or Some(string); a field that is not there reads as      *)
(* None, as dict.get gives it.  A diagnostics record is a dict; the fields *)
(* fusion sets hold plain strings.                                         *)
(***************************************************************************)
\* records in the two lists of optics_metrics together
MaxRecs == 2

\* a Python value that is neither None nor the empty string
Truthy(o) == ~IsNone(o) /\ Val(o) # ""

\* the fields copied from a chassis transceiver, in the order of lines 62-72
ChassisCopied == <<"part_number", "serial_number", "vendor", "media_type", "fiber_type">>
\* the fields copied from a slot-detail transceiver, in the order of lines 78-91
PicCopied == <<"vendor", "part_number", "cable_type", "media_type", "wavelength",
               "fiber_type", "firmware_version">>

\* if src.get(f): rec[f] = src[f], for each f of fields in turn
RECURSIVE CopyTruthy(_, _, _)
CopyTruthy(rec, src, fields) ==
    IF fields = <<>> THEN rec
    ELSE LET f == Head(fields)
         IN  CopyTruthy(IF Truthy(Get(src, f)) THEN Put(rec, f, Val(src[f])) ELSE rec,
                        src, Tail(fields))

\* the device-level fields, lines 47-52 and 98-103
WithDeviceFields(rec, origin_hostname, device_profile, origin_name) ==
    LET r1 == IF Truthy(origin_hostname)
              THEN Put(rec, "origin_hostname", Val(origin_hostname)) ELSE rec
        r2 == IF Truthy(device_profile)
              THEN Put(r1, "device_profile", Val(device_profile)) ELSE r1
    IN  IF Truthy(origin_name) THEN Put(r2, "origin_name", Val(origin_name)) ELSE r2

\* parse_interface_base_name(if_name) if if_name else None
BaseIfName(rec) ==
    IF "if_name" \in DOMAIN rec /\ rec["if_name"] # <<>>
    THEN Some(parse_interface_base_name(rec["if_name"]))
    ELSE None

\* a variant of the interface loop that lets the chassis inventory overwrite the
\* slot detail
InterfaceChassisLast(interface, origin_hostname, device_profile, origin_name, transceivers, pic_transceivers) ==
    LET r0 == WithDeviceFields(interface, origin_hostname, device_profile, origin_name)
        base_if_name == BaseIfName(interface)
    IN  IF IsNone(base_if_name) \/ Val(base_if_name) = <<>> THEN r0
        ELSE LET r1 == IF Val(base_if_name) \in DOMAIN pic_transceivers
                       THEN CopyTruthy(r0, pic_transceivers[Val(base_if_name)],
                                       PicCopied)
                       ELSE r0
             IN  IF Val(base_if_name) \in DOMAIN transceivers
                 THEN CopyTruthy(r1, transceivers[Val(base_if_name)], ChassisCopied)
                 ELSE r1

\* the body of the loop over optics_metrics['interfaces'], lines 43-91
merge_interface(interface, origin_hostname, device_profile, origin_name, transceivers, pic_transceivers) ==
    LET r0 == WithDeviceFields(interface, origin_hostname, device_profile, origin_name)
        base_if_name == BaseIfName(interface)
    IN  IF IsNone(base_if_name) \/ Val(base_if_name) = <<>> THEN r0
        ELSE LET r1 == IF Val(base_if_name) \in DOMAIN transceivers
                       THEN CopyTruthy(r0, transceivers[Val(base_if_name)],
                                       ChassisCopied)
                       ELSE r0
             IN  IF Val(base_if_name) \in DOMAIN pic_transceivers
                 THEN CopyTruthy(r1, pic_transceivers[Val(base_if_name)], PicCopied)
                 ELSE r1

\* a variant of the lane loop that looks the lane up under its channel-stripped
\* name without rewriting the prefix
LaneUnderOwnPrefix(lane, origin_hostname, device_profile, origin_name, transceivers, pic_transceivers) ==
    LET r0 == WithDeviceFields(lane, origin_hostname, device_profile, origin_name)
        key == IF "if_name" \in DOMAIN lane /\ lane["if_name"] # <<>>
               THEN (IF HasColon(lane["if_name"])
                     THEN BeforeFirstColon(lane["if_name"]) ELSE lane["if_name"])
               ELSE <<>>
    IN  IF key = <<>> THEN r0
        ELSE LET r1 == IF key \in DOMAIN transceivers
                       THEN CopyTruthy(r0, transceivers[key], ChassisCopied)
                       ELSE r0
             IN  IF key \in DOMAIN pic_transceivers
                 THEN CopyTruthy(r1, pic_transceivers[key], PicCopied)
                 ELSE r1

\* a variant of the lane loop that gives the device-level fields only to a lane
\* whose port has a transceiver in the chassis inventory or in the slot detail
LaneDeviceFieldsOnMatch(lane, origin_hostname, device_profile, origin_name, transceivers, pic_transceivers) ==
    LET r0 == WithDeviceFields(lane, origin_hostname, device_profile, origin_name)
        base_if_name == BaseIfName(lane)
    IN  IF IsNone(base_if_name) \/ Val(base_if_name) = <<>> THEN lane
        ELSE IF Val(base_if_name) \notin DOMAIN transceivers \cup DOMAIN pic_transceivers
        THEN lane
        ELSE LET r1 == IF Val(base_if_name) \in DOMAIN transceivers
                       THEN CopyTruthy(r0, transceivers[Val(base_if_name)],
                                       ChassisCopied)
                       ELSE r0
             IN  IF Val(base_if_name) \in DOMAIN pic_transceivers
                 THEN CopyTruthy(r1, pic_transceivers[Val(base_if_name)], PicCopied)
                 ELSE r1

\* the body of the loop over optics_metrics['lanes'], lines 94-141
merge_lane(lane, origin_hostname, device_profile, origin_name, transceivers, pic_transceivers) ==
    LET r0 == WithDeviceFields(lane, origin_hostname, device_profile, origin_name)
        base_if_name == BaseIfName(lane)
    IN  IF IsNone(base_if_name) \/ Val(base_if_name) = <<>> THEN r0
        ELSE LET r1 == IF Val(base_if_name) \in DOMAIN transceivers
                       THEN CopyTruthy(r0, transceivers[Val(base_if_name)],
                                       ChassisCopied)
                       ELSE r0
             IN  IF Val(base_if_name) \in DOMAIN pic_transceivers
                 THEN CopyTruthy(r1, pic_transceivers[Val(base_if_name)], PicCopied)
                 ELSE r1

\* an empty dict
EmptyDict == [k \in {} |-> None]

\* a variant that returns the fused records of each list last record first
MergeReversing(sys, chassis, metrics, pic) ==
    LET origin_hostname == Get(sys, "origin_hostname")
        device_profile == Get(sys, "device_profile")
        origin_name == Get(chassis, "origin_name")
        transceivers == IF "transceivers" \in DOMAIN chassis
                        THEN chassis["transceivers"] ELSE EmptyDict
        pic_transceivers == IF ~IsNone(pic) /\ "transceivers" \in DOMAIN Val(pic)
                            THEN Val(pic)["transceivers"] ELSE EmptyDict
        n == Len(metrics.interfaces)
        m == Len(metrics.lanes)
    IN  [interfaces |->
             [i \in 1..n |->
                 merge_interface(metrics.interfaces[n + 1 - i], origin_hostname,
                                 device_profile, origin_name, transceivers,
                                 pic_transceivers)],
         lanes |->
             [i \in 1..m |->
                 merge_lane(metrics.lanes[m + 1 - i], origin_hostname, device_profile,
                            origin_name, transceivers, pic_transceivers)]]

\* a variant that adds the fused records to the lists it was given
MergeAppending(sys, chassis, metrics, pic) ==
    LET origin_hostname == Get(sys, "origin_hostname")
        device_profile == Get(sys, "device_profile")
        origin_name == Get(chassis, "origin_name")
        transceivers == IF "transceivers" \in DOMAIN chassis
                        THEN chassis["transceivers"] ELSE EmptyDict
        pic_transceivers == IF ~IsNone(pic) /\ "transceivers" \in DOMAIN Val(pic)
                            THEN Val(pic)["transceivers"] ELSE EmptyDict
    IN  [interfaces |->
             metrics.interfaces \o
             [i \in DOMAIN metrics.interfaces |->
                 merge_interface(metrics.interfaces[i], origin_hostname, device_profile,
                                 origin_name, transceivers, pic_transceivers)],
         lanes |->
             metrics.lanes \o
             [i \in DOMAIN metrics.lanes |->
                 merge_lane(metrics.lanes[i], origin_hostname, device_profile,
                            origin_name, transceivers, pic_transceivers)]]

\* merge_metadata(system_info, chassis_inv, optics_metrics, pic_detail): the
\* optics_metrics it leaves and returns
merge_metadata(sys, chassis, metrics, pic) ==
    LET origin_hostname == Get(sys, "origin_hostname")
        device_profile == Get(sys, "device_profile")
        origin_name == Get(chassis, "origin_name")
        transceivers == IF "transceivers" \in DOMAIN chassis
                        THEN chassis["transceivers"] ELSE EmptyDict
        pic_transceivers == IF ~IsNone(pic) /\ "transceivers" \in DOMAIN Val(pic)
                            THEN Val(pic)["transceivers"] ELSE EmptyDict
    IN  [interfaces |->
             [i \in DOMAIN metrics.interfaces |->
                 merge_interface(metrics.interfaces[i], origin_hostname, device_profile,
                                 origin_name, transceivers, pic_transceivers)],
         lanes |->
             [i \in DOMAIN metrics.lanes |->
                 merge_lane(metrics.lanes[i], origin_hostname, device_profile,
                            origin_name, transceivers, pic_transceivers)]]

\* a variant that gives the slot-detail fields to the chassis transceiver of the
\* same name as well
CallUpdatingChassis(sys, chassis, metrics, pic) ==
    LET fused == merge_metadata(sys, chassis, metrics, pic)
        pic_transceivers == IF ~IsNone(pic) /\ "transceivers" \in DOMAIN Val(pic)
                            THEN Val(pic)["transceivers"] ELSE EmptyDict
        updated(k) == [f \in DOMAIN chassis["transceivers"][k]
                              \cup DOMAIN pic_transceivers[k] |->
                          IF f \in DOMAIN pic_transceivers[k]
                          THEN pic_transceivers[k][f]
                          ELSE chassis["transceivers"][k][f]]
    IN  [system_info |-> sys,
         chassis_inv |->
             IF "transceivers" \in DOMAIN chassis
             THEN [chassis EXCEPT !["transceivers"] =
                      [k \in DOMAIN chassis["transceivers"] |->
                          IF k \in DOMAIN pic_transceivers
                          THEN updated(k) ELSE chassis["transceivers"][k]]]
             ELSE chassis,
         pic_detail |-> pic,
         optics_metrics |-> fused,
         returned |-> fused]

\* one call of merge_metadata: the four arguments as the call leaves them, and
\* what it returns.  system_info, chassis_inv and pic_detail are only read; the
\* records of optics_metrics are assigned to where they are, and optics_metrics
\* itself is returned.
merge_metadata_call(sys, chassis, metrics, pic) ==
    LET fused == merge_metadata(sys, chassis, metrics, pic)
    IN  [system_info |-> sys,
         chassis_inv |-> chassis,
         pic_detail |-> pic,
         optics_metrics |-> fused,
         returned |-> fused]

\* what the chassis inventory and the slot detail say of one transceiver
ChassisText == [vendor |-> "VendorA", part_number |-> "740-A", serial_number |-> "SN-A",
                media_type |-> "100G-SR4", fiber_type |-> FIBER_TYPE_MULTI_MODE]
PicText == [vendor |-> "VendorB", part_number |-> "740-B", cable_type |-> "100GBASE LR4",
            media_type |-> "100GBASE-LR4", wavelength |-> "1310 nm",
            fiber_type |-> FIBER_TYPE_SINGLE_MODE, firmware_version |-> "1.2"]
ChassisFields == DOMAIN ChassisText
PicFields == DOMAIN PicText

\* the two kinds of blank field: None, and the empty string
Blanks == {None, Some("")}
\* a chassis transceiver with the fields of populated filled in
ChassisTransceiver(populated, blank) ==
    [f \in ChassisFields |-> IF f \in populated THEN Some(ChassisText[f]) ELSE blank]
\* a slot-detail transceiver; the parser omits a field it has found nothing for
PicTransceiver(populated, blank) ==
    [f \in (IF blank = None THEN populated ELSE PicFields) |->
        IF f \in populated THEN Some(PicText[f]) ELSE blank]

\* the names transceivers are keyed by: canonical, and with the legacy prefix
K6 == IfName(ET, <<"0", "/", "0", "/", "6">>, <<>>)
XE6 == IfName(XE, <<"0", "/", "0", "/", "6">>, <<>>)
TransceiverKeys == {K6, XE6}
\* the names of diagnostics records: the port, a channel of it under the legacy
\* prefix, a channel of another port, and a record without a name
RecordNames == {Some(K6),
                Some(IfName(XE, <<"0", "/", "0", "/", "6">>, <<":", "1">>)),
                Some(IfName(ET, <<"0", "/", "0", "/", "7">>, <<":", "0">>)),
                None}
\* which fields a transceiver of the chassis inventory, and of the slot detail, has
ChassisPopulated == {{}, ChassisFields}
PicPopulated == {{}, PicFields} \cup {{f} : f \in PicFields}

\* a transceiver keyed by the legacy prefix is taken with all its fields
Populated(key, patterns, fields) == IF key = K6 THEN patterns ELSE {fields}

\* hostname, profile and serial number of the device as the parsers give them
DeviceIdentities ==
    {<<Some("router1"), Some("Juniper_QFX5220"), Some("SN-DEV")>>,
     <<None, None, None>>,
     <<Some(""), Some("Juniper_QFX5220"), None>>}

\* a record of the interface list and of the lane list, as the optical
\* diagnostics extractor leaves them
\* a timestamp, a reading and a threshold without a reading stand for the
\* measurement fields
InterfaceRecord(name) ==
    LET measured == [device |-> DEVICE, timestamp |-> 1000000,
                     temperature |-> 45, tx_power_high_alarm |-> None]
    IN  IF IsNone(name) THEN measured ELSE Put(measured, "if_name", Val(name))
LaneRecord(name) ==
    LET measured == [device |-> DEVICE, lane |-> 0, timestamp |-> 1000000,
                     rx_power |-> -3, tx_bias |-> None]
    IN  IF IsNone(name) THEN measured ELSE Put(measured, "if_name", Val(name))

MergeInit ==
    /\ \E id \in DeviceIdentities, blank \in Blanks :
          /\ system_info = [origin_hostname |-> id[1], device_profile |-> id[2]]
          /\ \/ chassis_inv = [origin_name |-> id[3], transceivers |-> EmptyDict]
             \/ \E key \in TransceiverKeys :
                    \E populated \in Populated(key, ChassisPopulated, ChassisFields) :
                        chassis_inv = [origin_name |-> id[3],
                                       transceivers |->
                                           [k \in {key} |->
                                               ChassisTransceiver(populated, blank)]]
          /\ \/ pic_detail = None
             \/ pic_detail = Some([transceivers |-> EmptyDict])
             \/ \E key \in TransceiverKeys :
                    \E populated \in Populated(key, PicPopulated, PicFields) :
                        pic_detail = Some([transceivers |->
                                              [k \in {key} |->
                                                  PicTransceiver(populated, blank)]])
    /\ \E n \in 0..MaxRecs, m \in 0..MaxRecs :
          /\ n + m <= MaxRecs
          /\ \E ifs \in [1..n -> RecordNames], lns \in [1..m -> RecordNames] :
                optics_metrics = [interfaces |-> [i \in 1..n |-> InterfaceRecord(ifs[i])],
                                  lanes |-> [i \in 1..m |-> LaneRecord(lns[i])]]
    /\ merged_metrics = None
    /\ remerged_metrics = None
    /\ merge_before = None
    /\ merge_pc = "in"

MergeIdle ==
    /\ system_info = EmptyDict
    /\ chassis_inv = EmptyDict
    /\ pic_detail = None
    /\ optics_metrics = [interfaces |-> <<>>, lanes |-> <<>>]
    /\ merged_metrics = None
    /\ remerged_metrics = None
    /\ merge_before = None
    /\ merge_pc = "idle"

\* merged = merge_metadata(system_info, chassis_inv, optics_metrics, pic_detail)
MergeMetadata ==
    /\ merge_pc = "in"
    /\ LET call == merge_metadata_call(system_info, chassis_inv, optics_metrics,
                                       pic_detail)
       IN  /\ system_info' = call.system_info
           /\ chassis_inv' = call.chassis_inv
           /\ pic_detail' = call.pic_detail
           /\ optics_metrics' = call.optics_metrics
           /\ merged_metrics' = Some(call.returned)
    /\ merge_before' = Some([system_info |-> system_info, chassis_inv |-> chassis_inv,
                             pic_detail |-> pic_detail,
                             optics_metrics |-> optics_metrics])
    /\ merge_pc' = "done"
    /\ UNCHANGED remerged_metrics

\* merge_metadata(system_info, chassis_inv, merged, pic_detail): the fused records
\* are fused once more with the same system, chassis and slot data
Remerge ==
    /\ merge_pc = "done"
    /\ LET call == merge_metadata_call(system_info, chassis_inv, Val(merged_metrics),
                                       pic_detail)
       IN  /\ system_info' = call.system_info
           /\ chassis_inv' = call.chassis_inv
           /\ pic_detail' = call.pic_detail
           /\ optics_metrics' = call.optics_metrics
           /\ remerged_metrics' = Some(call.returned)
    /\ merge_pc' = "twice"
    /\ UNCHANGED <<merged_metrics, merge_before>>

(***************************************************************************)
(* Chassis topology extractor: parse_chassis_inventory                     *)
(*                                                                         *)
(* A chassis inventory document is a sequence of branches of the module    *)
(* tree, each a chassis-module holding one chassis-sub-module holding one  *)
(* chassis-sub-sub-module, and the serial-number text of the chassis       *)
(* element; an element name and a field text are None when the element is  *)
(* missing or empty.                                                       *)
(***************************************************************************)
\* branches of the module tree in a document
MaxBranches == 1

DigitChars == {"0", "1", "2", "3", "4", "5", "6", "7", "8", "9"}
\* the digits of s from place i on, up to the first character that is no digit
RECURSIVE DigitsFrom(_, _)
DigitsFrom(s, i) ==
    IF i > Len(s) \/ s[i] \notin DigitChars THEN <<>>
    ELSE <<s[i]>> \o DigitsFrom(s, i + 1)
\* the first place after i that holds no space
RECURSIVE AfterSpaces(_, _)
AfterSpaces(s, i) == IF i <= Len(s) /\ s[i] = " " THEN AfterSpaces(s, i + 1) ELSE i
\* whether key, then spaces, then digits stand at place i of s, case ignored
KeyNumberAt(s, key, i) ==
    /\ i + Len(key) <= Len(s)
    /\ Upper(SubSeq(s, i, i + Len(key) - 1)) = key
    /\ s[i + Len(key)] = " "
    /\ DigitsFrom(s, AfterSpaces(s, i + Len(key))) # <<>>
\* re.search(key + r'\s+(\d+)', s, re.IGNORECASE): None, or Some(group 1)
SearchKeyNumber(s, key) ==
    LET places == {i \in 1..Len(s) : KeyNumberAt(s, key, i)}
    IN  IF places = {} THEN None
        ELSE LET first == CHOOSE i \in places : \A j \in places : i <= j
             IN  Some(DigitsFrom(s, AfterSpaces(s, first + Len(key))))

\* extract_fpc_pic_port(module_name): None, or Some([type, number])
extract_fpc_pic_port(module_name) ==
    IF ~IsNone(SearchKeyNumber(module_name, <<"F", "P", "C">>))
    THEN Some([type |-> "fpc",
               number |-> Val(SearchKeyNumber(module_name, <<"F", "P", "C">>))])
    ELSE IF ~IsNone(SearchKeyNumber(module_name, <<"P", "I", "C">>))
    THEN Some([type |-> "pic",
               number |-> Val(SearchKeyNumber(module_name, <<"P", "I", "C">>))])
    ELSE IF ~IsNone(SearchKeyNumber(module_name, <<"X", "C", "V", "R">>))
    THEN Some([type |-> "port",
               number |-> Val(SearchKeyNumber(module_name, <<"X", "C", "V", "R">>))])
    ELSE None

\* description.split(): the words between spaces
RECURSIVE SplitFrom(_, _, _)
SplitFrom(s, i, word) ==
    IF i > Len(s) THEN (IF word = <<>> THEN <<>> ELSE <<word>>)
    ELSE IF s[i] = " "
         THEN (IF word = <<>> THEN <<>> ELSE <<word>>) \o SplitFrom(s, i + 1, <<>>)
    ELSE SplitFrom(s, i + 1, Append(word, s[i]))
Split(s) == SplitFrom(s, 1, <<>>)

\* the media type indicators of line 53
MediaIndicators ==
    <<<<"B", "A", "S", "E">>, <<"S", "R">>, <<"L", "R">>, <<"E", "R">>, <<"Z", "R">>, <<"S", "X">>, <<"L", "X">>>>
\* re.search(r'\d+G', part_upper)
HasSpeed(part_upper) ==
    \E i \in 1..(Len(part_upper) - 1) :
        part_upper[i] \in DigitChars /\ part_upper[i + 1] = "G"
\* the loop of lines 50-58 over the words left, media being the media type so far
RECURSIVE MediaTypeOf(_, _)
MediaTypeOf(parts, media) ==
    IF parts = <<>> THEN media
    ELSE IF AnyIn(MediaIndicators, Upper(Head(parts))) THEN Some(Head(parts))
    ELSE IF HasSpeed(Upper(Head(parts))) THEN MediaTypeOf(Tail(parts), Some(Head(parts)))
    ELSE MediaTypeOf(Tail(parts), media)

\* parse_transceiver_vendor_info(description)
parse_transceiver_vendor_info(description) ==
    IF IsNone(description) \/ Val(description) = <<>> \/ Split(Val(description)) = <<>>
    THEN [vendor |-> None, media_type |-> None]
    ELSE [vendor |-> Some(Head(Split(Val(description)))),
          media_type |-> MediaTypeOf(Split(Val(description)), None)]

\* findtext_ns(element, 'name', '')
NameText(name) == IF IsNone(name) THEN <<>> ELSE Val(name)
\* the number of an element name that starts with the key (case kept) and in which
\* extract_fpc_pic_port finds this type; None when the element is skipped
NumberOf(name, key, type) ==
    IF ~StartsWith(NameText(name), key) THEN None
    ELSE IF IsNone(extract_fpc_pic_port(NameText(name))) THEN None
    ELSE IF Val(extract_fpc_pic_port(NameText(name))).type # type THEN None
    ELSE Some(Val(extract_fpc_pic_port(NameText(name))).number)

\* the transceiver record of lines 140-167
TransceiverOf(xcvr) ==
    LET vendor_info == parse_transceiver_vendor_info(xcvr.description)
    IN  [vendor |-> vendor_info.vendor,
         part_number |-> xcvr.part_number,
         serial_number |-> xcvr.serial_number,
         description |-> xcvr.description,
         media_type |-> vendor_info.media_type,
         fiber_type |-> determine_fiber_type(vendor_info.media_type, xcvr.description,
                                             None)]

\* the loops of lines 98-167 for one branch of the module tree
StoreTransceiver(transceivers, branch, platform_hint) ==
    LET fpc_num == NumberOf(branch.fpc, <<"F", "P", "C">>, "fpc")
        pic_num == NumberOf(branch.pic, <<"P", "I", "C">>, "pic")
        xcvr_num == NumberOf(branch.xcvr.name, <<"X", "c", "v", "r">>, "port")
    IN  IF IsNone(fpc_num) \/ IsNone(pic_num) \/ IsNone(xcvr_num) THEN transceivers
        ELSE Put(transceivers,
                 parse_juniper_interface_name(Val(fpc_num), Val(pic_num), Val(xcvr_num),
                                              platform_hint),
                 TransceiverOf(branch.xcvr))

RECURSIVE StoreTransceivers(_, _, _)
StoreTransceivers(transceivers, branches, platform_hint) ==
    IF branches = <<>> THEN transceivers
    ELSE StoreTransceivers(StoreTransceiver(transceivers, Head(branches), platform_hint),
                           Tail(branches), platform_hint)

\* parse_chassis_inventory(xml_content, device, platform_hint); xml is None when
\* the document does not parse
parse_chassis_inventory(xml, device, platform_hint) ==
    IF IsNone(xml)
    THEN [device |-> device, origin_name |-> None, transceivers |-> EmptyDict]
    ELSE [device |-> device,
          origin_name |-> IF ~IsNone(Val(xml).serial_number) /\ Val(xml).serial_number # Some(<<>>)
                          THEN Val(xml).serial_number ELSE None,
          transceivers |-> StoreTransceivers(EmptyDict, Val(xml).branches,
                                             platform_hint)]

\* a variant that prints nothing when the document does not parse
ChassisErrorsUnreported(xml) == <<>>

\* what parse_chassis_inventory prints to sys.stderr, line 81
chassis_parse_errors(xml) == IF IsNone(xml) THEN <<"Error parsing XML">> ELSE <<>>

\* element names at the three levels of the module tree
FpcNames == {Some(<<"F", "P", "C", " ", "0">>), Some(<<"C", "B", " ", "0">>)}
PicNames == {Some(<<"P", "I", "C", " ", "0">>), None}
XcvrNames == {Some(<<"X", "c", "v", "r", " ", "6">>), Some(<<"X", "c", "v", "r", " ", "4", "8">>), Some(<<"X", "c", "v", "r">>)}
\* what a chassis-sub-sub-module says of its transceiver
XcvrTexts ==
    {[description |-> None, part_number |-> None, serial_number |-> None],
     [description |-> Some(<<"Q", "S", "F", "P", "-", "1", "0", "0", "G", "B", "A", "S", "E", "-", "S", "R", "4">>),
      part_number |-> Some(<<"7", "4", "0", "-", "A">>),
      serial_number |-> Some(<<"S", "N", "-", "A">>)],
     [description |-> Some(<<"V", "E", "N", "D", "O", "R", "A", " ", "1", "0", "0", "G", " ", "L", "R", "4">>),
      part_number |-> Some(<<"7", "4", "0", "-", "A">>), serial_number |-> None],
     [description |-> Some(<<"U", "N", "K", "N", "O", "W", "N">>),
      part_number |-> None, serial_number |-> Some(<<"S", "N", "-", "A">>)]}
ChassisBranches ==
    {[fpc |-> f, pic |-> p,
      xcvr |-> [name |-> x, description |-> t.description,
                part_number |-> t.part_number, serial_number |-> t.serial_number]] :
        f \in FpcNames, p \in PicNames, x \in XcvrNames, t \in XcvrTexts}
\* the platform hints given on the command line
ChassisHints == {None, Some(<<"q", "f", "x", "5", "2", "4", "0">>), Some(<<"Q", "F", "X", "5", "1", "1", "0">>), Some(<<"e", "x", "4", "3", "0", "0">>), Some(<<"s", "r", "x", "3", "0", "0">>)}

ChassisInit ==
    /\ \/ chassis_xml = None
       \/ \E n \in 0..MaxBranches :
              \E branches \in [1..n -> ChassisBranches],
                 serial_number \in {None, Some(<<"S", "N", "-", "D", "E", "V">>)} :
                  chassis_xml = Some([serial_number |-> serial_number,
                                      branches |-> branches])
    /\ chassis_hint \in ChassisHints
    /\ chassis_result = None
    /\ chassis_stderr = <<>>

ChassisIdle ==
    /\ chassis_xml = None
    /\ chassis_hint = None
    /\ chassis_result = None
    /\ chassis_stderr = <<>>

\* result = parse_chassis_inventory(xml_content, args.device, args.platform)
ParseChassisInventory ==
    /\ IsNone(chassis_result)
    /\ chassis_result' = Some(parse_chassis_inventory(chassis_xml, DEVICE, chassis_hint))
    /\ chassis_stderr' = chassis_stderr \o chassis_parse_errors(chassis_xml)
    /\ UNCHANGED <<chassis_xml, chassis_hint>>

(***************************************************************************)
(* Slot detail extractor: parse_pic_detail                                 *)
(*                                                                         *)
(* A get-pic-detail document is the sequence of its port elements; a port  *)
(* element maps each child tag to the text of the child, None when the     *)
(* child is missing.  The texts are sequences of characters, as the        *)
(* extractor lower-cases and searches them.                                *)
(***************************************************************************)
PortTags == {"port-number", "cable-type", "fiber-mode", "sfp-vendor-name",
             "sfp-vendor-pno", "wavelength", "sfp-vendor-fw-ver", "sfp-jnpr-ver"}

\* findtext_ns(port_elem, tag): the text of the child, None when the child is
\* missing or its text is empty
port_findtext(port_elem, tag) ==
    IF IsNone(port_elem[tag]) \/ Val(port_elem[tag]) = <<>> THEN None ELSE port_elem[tag]

\* the lists of lines 113-138
NotAvailable == {<<"n", "/", "a">>, <<"n", "a">>, <<"n", "o", "n", "e">>, <<>>}
NotAvailableFirmware == NotAvailable \cup {<<"0", ".", "0">>}

\* a variant that compares the text as it is spelled
AvailableAsSpelled(text, excluded) == ~IsNone(text) /\ Val(text) \notin excluded

\* text and text.lower() not in excluded
Available(text, excluded) == ~IsNone(text) /\ Lower(Val(text)) \notin excluded

\* parse_fiber_mode(fiber_mode)
parse_fiber_mode(fiber_mode) ==
    IF IsNone(fiber_mode) \/ Val(fiber_mode) = <<>>
       \/ Lower(Val(fiber_mode)) \in NotAvailable
    THEN None
    ELSE LET fiber_mode_lower == Lower(Val(fiber_mode))
         IN  IF Contains(fiber_mode_lower, <<"m", "u", "l", "t", "i">>)
                \/ Contains(fiber_mode_lower, <<"m", "m">>)
             THEN Some(FIBER_TYPE_MULTI_MODE)
             ELSE IF Contains(fiber_mode_lower, <<"s", "i", "n", "g", "l", "e">>)
                     \/ Contains(fiber_mode_lower, <<"s", "m">>)
             THEN Some(FIBER_TYPE_SINGLE_MODE)
             ELSE None

\* the transceiver dict built from one port element, lines 102-141
PortTransceiver(port_elem) ==
    LET cable_type == port_findtext(port_elem, "cable-type")
        fiber_mode == port_findtext(port_elem, "fiber-mode")
        vendor_name == port_findtext(port_elem, "sfp-vendor-name")
        vendor_pno == port_findtext(port_elem, "sfp-vendor-pno")
        wavelength == port_findtext(port_elem, "wavelength")
        vendor_fw == port_findtext(port_elem, "sfp-vendor-fw-ver")
        jnpr_ver == port_findtext(port_elem, "sfp-jnpr-ver")
        t1 == IF Available(vendor_name, NotAvailable)
              THEN Put(EmptyDict, "vendor", Val(vendor_name)) ELSE EmptyDict
        t2 == IF Available(vendor_pno, NotAvailable)
              THEN Put(t1, "part_number", Val(vendor_pno)) ELSE t1
        t3 == IF Available(cable_type, NotAvailable)
              THEN Put(Put(t2, "cable_type", Val(cable_type)),
                       "media_type", Val(cable_type))
              ELSE t2
        t4 == IF Available(wavelength, NotAvailable)
              THEN Put(t3, "wavelength", Val(wavelength)) ELSE t3
        fiber == parse_fiber_mode(fiber_mode)
        t5 == IF ~IsNone(fiber) THEN Put(t4, "fiber_type", Val(fiber)) ELSE t4
        t6 == IF Available(vendor_fw, NotAvailableFirmware)
              THEN Put(t5, "firmware_version", Val(vendor_fw)) ELSE t5
    IN  IF Available(jnpr_ver, NotAvailable)
        THEN Put(t6, "juniper_version", Val(jnpr_ver)) ELSE t6

\* the loop over the port elements, lines 91-145
RECURSIVE StorePorts(_, _, _, _, _)
StorePorts(transceivers, ports, fpc, pic, platform_hint) ==
    IF ports = <<>> THEN transceivers
    ELSE LET port_elem == Head(ports)
             port_number == port_findtext(port_elem, "port-number")
             transceiver == PortTransceiver(port_elem)
             stored ==
                 IF IsNone(port_number) \/ transceiver = EmptyDict THEN transceivers
                 ELSE Put(transceivers,
                          parse_juniper_interface_name(fpc, pic, Val(port_number),
                                                       platform_hint),
                          transceiver)
         IN  StorePorts(stored, Tail(ports), fpc, pic, platform_hint)

\* parse_pic_detail(xml_content, device, fpc, pic, platform_hint); fpc and pic
\* are given as str(fpc) and str(pic) spell them
parse_pic_detail(xml, device, fpc, pic, platform_hint) ==
    [device |-> device, fpc |-> fpc, pic |-> pic,
     transceivers |-> IF IsNone(xml) THEN EmptyDict
                      ELSE StorePorts(EmptyDict, Val(xml), fpc, pic, platform_hint)]

\* the texts a port element carries when the slot has read the field
PortTexts ==
    [k \in PortTags |->
        CASE k = "port-number" -> <<"6">>
          [] k = "cable-type" -> <<"1", "0", "0", "G", "B", "A", "S", "E", " ", "L", "R", "4">>
          [] k = "fiber-mode" -> <<"S", "i", "n", "g", "l", "e", " ", "M", "o", "d", "e">>
          [] k = "sfp-vendor-name" -> <<"V", "e", "n", "d", "o", "r", "B">>
          [] k = "sfp-vendor-pno" -> <<"7", "4", "0", "-", "B">>
          [] k = "wavelength" -> <<"1", "3", "1", "0", " ", "n", "m">>
          [] k = "sfp-vendor-fw-ver" -> <<"1", ".", "2">>
          [] k = "sfp-jnpr-ver" -> <<"R", "E", "V", " ", "0", "1">>]
\* the texts a slot writes for a field it has not read
UnreadTexts == {<<"n", "/", "a">>, <<"N", "/", "A">>, <<"N", "A">>, <<"N", "o", "n", "e">>, <<>>, <<"0", ".", "0">>}
\* the tags whose text varies from port to port below
VaryingTags == PortTags \ {"port-number", "sfp-jnpr-ver"}
PicHints == {None, Some(<<"e", "x", "4", "3", "0", "0">>)}

\* a text in the encoding of the fusion model, which does not take it apart
AsString(s) ==
    CASE s = <<"n", "/", "a">> -> "n/a" []
         s = <<"N", "/", "A">> -> "N/A" []
         s = <<"N", "A">> -> "NA" []
         s = <<"N", "o", "n", "e">> -> "None" []
         s = <<"0", ".", "0">> -> "0.0" []
         s = <<"V", "e", "n", "d", "o", "r", "B">> -> "VendorB" []
         s = <<"7", "4", "0", "-", "B">> -> "740-B" []
         s = <<"1", "0", "0", "G", "B", "A", "S", "E", " ", "L", "R", "4">> -> "100GBASE LR4" []
         s = <<"S", "i", "n", "g", "l", "e", " ", "M", "o", "d", "e">> -> "Single Mode" []
         s = <<"M", "u", "l", "t", "i", " ", "M", "o", "d", "e">> -> "Multi Mode" []
         s = <<"1", "3", "1", "0", " ", "n", "m">> -> "1310 nm" []
         s = <<"1", ".", "2">> -> "1.2" []
         s = <<"R", "E", "V", " ", "0", "1">> -> "REV 01"
      [] s = <<>> -> ""

\* the parsed slot detail as merge_metadata reads it back from its file
AsPicDetail(result) ==
    [transceivers |->
        [name \in DOMAIN result.transceivers |->
            [f \in DOMAIN result.transceivers[name] |->
                IF f = "fiber_type" THEN Some(result.transceivers[name][f])
                ELSE Some(AsString(result.transceivers[name][f]))]]]

\* what the slot detail is fused with: a device, a chassis inventory that
\* knows every field of the transceiver of port 6, and the diagnostics of the
\* port and of one of its channels
PicSystemInfo ==
    [origin_hostname |-> Some("router1"), device_profile |-> Some("Juniper_QFX5220")]
PicChassisInv ==
    [origin_name |-> Some("SN-DEV"),
     transceivers |-> [k \in {K6} |-> ChassisTransceiver(ChassisFields, None)]]
PicOpticsMetrics ==
    [interfaces |-> <<InterfaceRecord(Some(K6))>>,
     lanes |-> <<LaneRecord(Some(IfName(XE, <<"0", "/", "0", "/", "6">>, <<":", "1">>)))>>]

PicInit ==
    /\ \/ pic_xml = None
       \/ pic_xml = Some(<<>>)
       \/ \E unread \in UnreadTexts, jnpr \in BOOLEAN :
              \E read \in SUBSET VaryingTags, missing \in SUBSET VaryingTags :
                  /\ read \cap missing = {}
                  /\ pic_xml =
                         Some(<<[k \in PortTags |->
                                    IF k = "port-number" THEN Some(PortTexts[k])
                                    ELSE IF k = "sfp-jnpr-ver"
                                    THEN (IF jnpr THEN Some(PortTexts[k])
                                          ELSE Some(unread))
                                    ELSE IF k \in read THEN Some(PortTexts[k])
                                    ELSE IF k \in missing THEN None
                                    ELSE Some(unread)]>>)
       \/ pic_xml = Some(<<[k \in PortTags |->
                               IF k = "port-number" THEN None ELSE Some(PortTexts[k])]>>)
    /\ pic_hint \in PicHints
    /\ pic_result = None
    /\ pic_fused = None

PicIdle ==
    /\ pic_xml = None
    /\ pic_hint = None
    /\ pic_result = None
    /\ pic_fused = None

\* result = parse_pic_detail(xml_content, device, fpc, pic, platform_hint)
ParsePicDetail ==
    /\ IsNone(pic_result)
    /\ pic_result' = Some(parse_pic_detail(pic_xml, DEVICE, <<"0">>, <<"0">>, pic_hint))
    /\ UNCHANGED <<pic_xml, pic_hint, pic_fused>>

\* merged = merge_metadata(system_info, chassis_inv, optics_metrics, pic_detail)
\* with the pic_detail that parse_pic_detail returned
FusePicDetail ==
    /\ ~IsNone(pic_result)
    /\ IsNone(pic_fused)
    /\ pic_fused' = Some(merge_metadata(PicSystemInfo, PicChassisInv, PicOpticsMetrics,
                                         Some(AsPicDetail(Val(pic_result)))))
    /\ UNCHANGED <<pic_xml, pic_hint, pic_result>>

(***************************************************************************)
(* Metrics export: json_to_prometheus                                      *)
(*                                                                         *)
(* A record of the export input maps a key to Some(value), or to None for  *)
(* a JSON null; if_name and device are plain strings.  A line of the text  *)
(* returned, name{label="value",...} value, is [name, labels, value] with  *)
(* labels the sequence of <<label, value>> pairs in the order written.     *)
(***************************************************************************)
\* lanes in the export input
MaxExportLanes == 1

\* the metrics of an interface record, <<metric name, key>>, in the order of
\* lines 63-167
InterfaceMetrics ==
    <<<<"temperature_high_alarm", "temperature_high_alarm">>, <<"temperature_low_alarm", "temperature_low_alarm">>,
      <<"temperature_high_warn", "temperature_high_warn">>, <<"temperature_low_warn", "temperature_low_warn">>,
      <<"voltage_high_alarm", "voltage_high_alarm">>, <<"voltage_low_alarm", "voltage_low_alarm">>,
      <<"voltage_high_warn", "voltage_high_warn">>, <<"voltage_low_warn", "voltage_low_warn">>,
      <<"tx_power_high_alarm", "tx_power_high_alarm">>, <<"tx_power_low_alarm", "tx_power_low_alarm">>,
      <<"tx_power_high_warn", "tx_power_high_warn">>, <<"tx_power_low_warn", "tx_power_low_warn">>,
      <<"rx_power_high_alarm", "rx_power_high_alarm">>, <<"rx_power_low_alarm", "rx_power_low_alarm">>,
      <<"rx_power_high_warn", "rx_power_high_warn">>, <<"rx_power_low_warn", "rx_power_low_warn">>,
      <<"tx_bias_high_alarm", "tx_bias_high_alarm">>, <<"tx_bias_low_alarm", "tx_bias_low_alarm">>,
      <<"tx_bias_high_warn", "tx_bias_high_warn">>, <<"tx_bias_low_warn", "tx_bias_low_warn">>,
      <<"temperature", "temperature">>, <<"voltage", "voltage">>,
      <<"tx_bias", "tx_bias">>, <<"tx_power_mw", "tx_power_mw">>,
      <<"tx_power", "tx_power">>, <<"rx_power_mw", "rx_power_mw">>,
      <<"rx_power", "rx_power">>, <<"interface_admin_status", "admin_status">>,
      <<"interface_oper_status", "oper_status">>, <<"interface_speed_bps", "speed_bps">>,
      <<"interface_input_bps", "input_bps">>, <<"interface_input_pps", "input_pps">>,
      <<"interface_output_bps", "output_bps">>, <<"interface_output_pps", "output_pps">>,
      <<"interface_fec_ccw", "fec_ccw">>, <<"interface_fec_nccw", "fec_nccw">>,
      <<"interface_fec_ccw_error_rate", "fec_ccw_error_rate">>, <<"interface_fec_nccw_error_rate", "fec_nccw_error_rate">>,
      <<"interface_pre_fec_ber", "pre_fec_ber">>, <<"interface_fec_histogram_bin_0", "histogram_bin_0">>,
      <<"interface_fec_histogram_bin_1", "histogram_bin_1">>, <<"interface_fec_histogram_bin_2", "histogram_bin_2">>,
      <<"interface_fec_histogram_bin_3", "histogram_bin_3">>, <<"interface_fec_histogram_bin_4", "histogram_bin_4">>,
      <<"interface_fec_histogram_bin_5", "histogram_bin_5">>, <<"interface_fec_histogram_bin_6", "histogram_bin_6">>,
      <<"interface_fec_histogram_bin_7", "histogram_bin_7">>, <<"interface_fec_histogram_bin_8", "histogram_bin_8">>,
      <<"interface_fec_histogram_bin_9", "histogram_bin_9">>, <<"interface_fec_histogram_bin_10", "histogram_bin_10">>,
      <<"interface_fec_histogram_bin_11", "histogram_bin_11">>, <<"interface_fec_histogram_bin_12", "histogram_bin_12">>,
      <<"interface_fec_histogram_bin_13", "histogram_bin_13">>, <<"interface_fec_histogram_bin_14", "histogram_bin_14">>,
      <<"interface_fec_histogram_bin_15", "histogram_bin_15">>>>
\* the metrics of a lane record, lines 205-219
LaneMetricLines ==
    <<<<"rx_power_mw", "rx_power_mw">>, <<"rx_power", "rx_power">>,
      <<"tx_power_mw", "tx_power_mw">>, <<"tx_power", "tx_power">>,
      <<"tx_bias", "tx_bias">>>>
\* the metadata labels, lines 37-59 and 179-201
MetadataLabels ==
    <<"origin_hostname", "device_profile", "origin_name", "vendor", "part_number",
      "serial_number", "media_type", "cable_type", "wavelength", "fiber_type">>

\* a variant of the test: the key is there
HasKey(rec, key) == key \in DOMAIN rec

\* rec.get(key) is not None
HasValue(rec, key) == key \in DOMAIN rec /\ ~IsNone(rec[key])

\* the labels.append of each metadata field with a non-empty value
RECURSIVE MetadataOf(_, _)
MetadataOf(rec, fields) ==
    IF fields = <<>> THEN <<>>
    ELSE (IF Truthy(Get(rec, Head(fields)))
          THEN <<<<Head(fields), Val(rec[Head(fields)])>>>> ELSE <<>>)
         \o MetadataOf(rec, Tail(fields))

\* the value written for a metric: the status metrics are 1 for 'up', 0
\* otherwise; the format string writes a null as None
MetricValue(rec, key) ==
    IF key \in {"admin_status", "oper_status"}
    THEN (IF rec[key] = Some("up") THEN 1 ELSE 0)
    ELSE IF IsNone(rec[key]) THEN "None"
    ELSE Val(rec[key])

\* the lines.append of each metric with a value
RECURSIVE MetricLines(_, _, _)
MetricLines(rec, metrics, labels) ==
    IF metrics = <<>> THEN <<>>
    ELSE (IF HasValue(rec, Head(metrics)[2])
          THEN <<[name |-> Head(metrics)[1], labels |-> labels,
                  value |-> MetricValue(rec, Head(metrics)[2])]>>
          ELSE <<>>)
         \o MetricLines(rec, Tail(metrics), labels)

\* rec.get('if_name', 'unknown')
ExportName(rec) == IF "if_name" \in DOMAIN rec THEN rec["if_name"] ELSE "unknown"

\* the lines of one interface record, lines 28-167
InterfaceLines(interface) ==
    MetricLines(interface, InterfaceMetrics,
                <<<<"interface", ExportName(interface)>>>>
                    \o MetadataOf(interface, MetadataLabels))

\* the lines of one lane record, lines 170-219
LaneLines(lane) ==
    MetricLines(lane, LaneMetricLines,
                <<<<"interface", ExportName(lane)>>,
                  <<"lane", IF "lane" \in DOMAIN lane THEN lane["lane"] ELSE 0>>>>
                    \o MetadataOf(lane, MetadataLabels))

RECURSIVE LinesOfAll(_, _)
LinesOfAll(recs, lane) ==
    IF recs = <<>> THEN <<>>
    ELSE (IF lane THEN LaneLines(Head(recs)) ELSE InterfaceLines(Head(recs)))
         \o LinesOfAll(Tail(recs), lane)

\* json_to_prometheus(data, job, instance): the lines joined into the text
json_to_prometheus(data, job, instance) ==
    LinesOfAll(data.interfaces, FALSE) \o LinesOfAll(data.lanes, TRUE)

\* the records tried.  The five DOM fields carry readings (one of them zero),
\* nulls, or are not there; temperature, voltage and a threshold carry readings
\* or nulls; the metadata is not there, given, or given with an empty vendor
DomKeys == {"tx_bias", "tx_power_mw", "tx_power", "rx_power_mw", "rx_power"}
DomReadings == [tx_bias |-> 0, tx_power_mw |-> 42, tx_power |-> -4, rx_power_mw |-> 79,
                rx_power |-> -1]
WithDom(rec, dom) ==
    IF dom = "absent" THEN rec
    ELSE [k \in DOMAIN rec \cup DomKeys |->
             IF k \in DomKeys
             THEN (IF dom = "null" THEN None ELSE Some(DomReadings[k]))
             ELSE rec[k]]
WithFields(rec, fields) ==
    [k \in DOMAIN rec \cup DOMAIN fields |-> IF k \in DOMAIN fields THEN fields[k] ELSE rec[k]]
ExportMetadata(meta) ==
    IF meta = "absent" THEN EmptyDict
    ELSE [origin_hostname |-> Some("router1"),
          vendor |-> IF meta = "blank" THEN Some("") ELSE Some("VendorA"),
          fiber_type |-> IF meta = "blank" THEN None ELSE Some(FIBER_TYPE_MULTI_MODE)]
ExportInterface(named, dom, measured, meta, stats) ==
    LET r0 == IF named THEN [device |-> DEVICE, if_name |-> "xe-0/0/48:2"]
              ELSE [device |-> DEVICE]
        r1 == WithFields(r0, [temperature |-> IF measured THEN Some(28) ELSE None,
                              voltage |-> IF measured THEN Some(3) ELSE None,
                              temperature_high_alarm |-> IF measured THEN Some(75) ELSE None,
                              tx_bias_low_warn |-> Some(0)])
        r2 == IF stats
              THEN WithFields(r1, [admin_status |-> Some("up"), oper_status |-> Some("down"),
                                   fec_ccw |-> Some(0), pre_fec_ber |-> None,
                                   histogram_bin_3 |-> Some(7)])
              ELSE r1
    IN  WithFields(WithDom(r2, dom), ExportMetadata(meta))
ExportLane(dom, numbered, meta) ==
    LET r0 == IF numbered
              THEN [device |-> DEVICE, if_name |-> "xe-0/0/48:2", lane |-> 2]
              ELSE [device |-> DEVICE, if_name |-> "xe-0/0/48:2"]
    IN  WithFields(WithDom(r0, dom), ExportMetadata(meta))
DomShapes == {"readings", "null", "absent"}
ExportInterfaces ==
    {ExportInterface(named, dom, measured, meta, stats) :
        named \in BOOLEAN, dom \in DomShapes, measured \in BOOLEAN,
        meta \in {"absent", "given", "blank"}, stats \in BOOLEAN}
ExportLanes ==
    {ExportLane(dom, numbered, meta) :
        dom \in DomShapes, numbered \in BOOLEAN, meta \in {"absent", "given"}}

PromInit ==
    /\ \E interfaces \in {<<>>} \cup {<<r>> : r \in ExportInterfaces} :
          \E n \in 0..MaxExportLanes : \E lanes \in [1..n -> ExportLanes] :
              prom_data = [interfaces |-> interfaces, lanes |-> lanes]
    /\ prom_lines = None

PromIdle ==
    /\ prom_data = [interfaces |-> <<>>, lanes |-> <<>>]
    /\ prom_lines = None

\* metrics_data = json_to_prometheus(data, job, instance)
JsonToPrometheus ==
    /\ IsNone(prom_lines)
    /\ prom_lines' = Some(json_to_prometheus(prom_data, "junos_optics", DEVICE))
    /\ UNCHANGED prom_data

(***************************************************************************)
(* Interface statistics extractor followed by the counter-delta post-pass: *)
(* parse_interface_statistics, process_metrics                             *)
(*                                                                         *)
(* A get-interface-information document is the sequence of its             *)
(* physical-interface elements, each [name, fec]: the text of the name     *)
(* child and the ethernet-fec-statistics child, which maps fec_ccw_count   *)
(* and fec_nccw_count to their texts; None stands for a missing or empty   *)
(* element.  The status, speed, traffic, error-rate and histogram fields,  *)
(* which the post-pass does not read, are left out.                        *)
(***************************************************************************)
\* collection cycles
MaxCycles == 2

\* the value of a text of digits
RECURSIVE DecimalValue(_)
DecimalValue(s) ==
    IF s = <<>> THEN 0
    ELSE 10 * DecimalValue(SubSeq(s, 1, Len(s) - 1))
         + (CHOOSE d \in 0..9 : ToString(d) = s[Len(s)])

\* extract_numeric_value(text) of interface_statistics.py, lines 30-52: the
\* number the text spells once its commas are removed, None when it spells none
stats_numeric_value(text) ==
    LET cleaned == Without(text, ",")
    IN  IF cleaned # <<>> /\ \A i \in DOMAIN cleaned : cleaned[i] \in DigitChars
        THEN Some(DecimalValue(cleaned))
        ELSE None

\* the record of one physical-interface element, lines 126-196; None when the
\* element is skipped (line 136) or carries no FEC counter (line 243)
StatsRecord(interface, device, now) ==
    IF IsNone(interface.name) THEN None
    ELSE LET r0 == [if_name |-> Val(interface.name), device |-> device,
                    timestamp |-> now]
             fec_ccw == IF IsNone(interface.fec) THEN None
                        ELSE Val(interface.fec)["fec_ccw_count"]
             fec_nccw == IF IsNone(interface.fec) THEN None
                         ELSE Val(interface.fec)["fec_nccw_count"]
             r1 == IF ~IsNone(fec_ccw)
                   THEN Put(r0, "fec_ccw", stats_numeric_value(Val(fec_ccw))) ELSE r0
             r2 == IF ~IsNone(fec_nccw)
                   THEN Put(r1, "fec_nccw", stats_numeric_value(Val(fec_nccw))) ELSE r1
         IN  IF "fec_ccw" \in DOMAIN r2 \/ "fec_nccw" \in DOMAIN r2
             THEN Some(r2) ELSE None

\* parse_interface_statistics(xml_content, device) at time now:
\* result['interfaces']
RECURSIVE StatsRecords(_, _, _)
StatsRecords(interfaces, device, now) ==
    IF interfaces = <<>> THEN <<>>
    ELSE StatsRecord(Head(interfaces), device, now)
         \o StatsRecords(Tail(interfaces), device, now)
parse_interface_statistics(xml, device, now) ==
    IF IsNone(xml) THEN <<>> ELSE StatsRecords(Val(xml), device, now)

\* process_metrics, lines 138-141: calculate_throughput on each record in
\* turn; [dir, interfaces], the state directory left and the records written
RECURSIVE ProcessRecords(_, _)
ProcessRecords(dir, interfaces) ==
    IF interfaces = <<>> THEN [dir |-> dir, interfaces |-> <<>>]
    ELSE LET interface == Head(interfaces)
             prev_state == load_previous_state(dir, interface["device"],
                                               interface["if_name"])
             rest == ProcessRecords(state_dir_after(dir, interface), Tail(interfaces))
         IN  [dir |-> rest.dir,
              interfaces |-> <<throughput_deltas(interface, prev_state)>>
                                 \o rest.interfaces]

\* the documents of a cycle: not well-formed, without interfaces, or with the
\* port et-0/0/6, named or not, with or without FEC statistics
StatsName == IfName(ET, <<"0", "/", "0", "/", "6">>, <<>>)
CcwTexts == {None, Some(<<"4", "0">>), Some(<<"1", "0", "0">>),
             Some(<<"1", ",", "0", "4", "0">>), Some(<<"n", "/", "a">>)}
NccwTexts == {None, Some(<<"0">>)}
StatsDocuments ==
    {None, Some(<<>>),
     Some(<<[name |-> None,
             fec |-> Some([fec_ccw_count |-> Some(<<"4", "0">>),
                           fec_nccw_count |-> Some(<<"0">>)])]>>),
     Some(<<[name |-> Some(StatsName), fec |-> None]>>)}
        \cup {Some(<<[name |-> Some(StatsName),
                      fec |-> Some([fec_ccw_count |-> ccw, fec_nccw_count |-> nccw])]>>) :
                 ccw \in CcwTexts, nccw \in NccwTexts}
\* seconds between two cycles
CycleSeconds == {0, 5, 10}

StatsInit ==
    /\ stats_clock = 1700000000
    /\ stats_xml = None
    /\ stats_before = None
    /\ stats_dir = EmptyDict
    /\ stats_out = None
    /\ stats_cycle = 0

\* one collection cycle: parse_interface_statistics on the document of the
\* cycle, then process_metrics on what it returned
CollectStatistics ==
    /\ stats_cycle < MaxCycles
    /\ \E seconds \in CycleSeconds, xml \in StatsDocuments :
          LET now == stats_clock + seconds
              processed == ProcessRecords(stats_dir,
                                          parse_interface_statistics(xml, R1, now))
          IN  /\ stats_clock' = now
              /\ stats_xml' = xml
              /\ stats_before' = IF stats_cycle = 0 THEN None
                                 ELSE Some([clock |-> stats_clock, xml |-> stats_xml])
              /\ stats_dir' = processed.dir
              /\ stats_out' = Some(processed.interfaces)
    /\ stats_cycle' = stats_cycle + 1

(***************************************************************************)
(* Hourly storage: extract_interface_dom_metrics, extract_lane_dom_metrics,*)
(* extract_interface_counters, write_parquet_file, process_all_devices     *)
(*                                                                         *)
(* device_files is the dict process_all_devices builds from the file names *)
(* of the metrics directory: device -> metric type -> the JSON of the      *)
(* file.  A row maps each column to Some(value), or to None for a Python   *)
(* None.  The column collection_timestamp, a rendering of timestamp, is    *)
(* left out.                                                               *)
(***************************************************************************)
\* --run-timestamp
RunTimestamp == 1700000000

\* d.get(key, default)
PyGet(d, key, default) == IF key \in DOMAIN d THEN d[key] ELSE default

\* device_data as lines 323-340 build it from the files of one device
DeviceData(device, files) ==
    LET d0 == [origin_hostname |-> Some(device), origin_name |-> Some(device)]
        d1 == IF "system_information" \in DOMAIN files
              THEN LET data == files["system_information"]
                   IN  Put([k \in DOMAIN d0 \cup DOMAIN data |->
                               IF k \in DOMAIN data THEN data[k] ELSE d0[k]],
                           "inventory_instance", PyGet(data, "device", Some(device)))
              ELSE d0
        d2 == IF "optics_diagnostics" \in DOMAIN files
              THEN Put(d1, "optics_diagnostics", files["optics_diagnostics"]) ELSE d1
        d3 == IF "interface_statistics" \in DOMAIN files
              THEN Put(d2, "interface_statistics", files["interface_statistics"]) ELSE d2
    IN  IF "chassis_inventory" \in DOMAIN files
        THEN LET data == files["chassis_inventory"]
                 d4 == Put(d3, "chassis_inventory", data)
             IN  IF "origin_name" \in DOMAIN data
                 THEN Put(d4, "origin_name", data["origin_name"]) ELSE d4
        ELSE d3

\* the columns every row starts with, lines 68-71
DeviceColumns(device_data) ==
    [origin_hostname |-> PyGet(device_data, "origin_hostname", Some("")),
     origin_name |-> PyGet(device_data, "origin_name", Some("")),
     inventory_instance |-> PyGet(device_data, "inventory_instance", Some("")),
     timestamp |-> Some(RunTimestamp)]
\* rec1 with the columns of rec2 added
Columns(rec1, rec2) ==
    [k \in DOMAIN rec1 \cup DOMAIN rec2 |-> IF k \in DOMAIN rec2 THEN rec2[k] ELSE rec1[k]]

\* the lookup of lines 75-80: interface name -> part and serial number
ChassisLookup(device_data) ==
    LET transceivers == PyGet(PyGet(device_data, "chassis_inventory", EmptyDict),
                              "transceivers", EmptyDict)
    IN  [if_name \in DOMAIN transceivers |->
            [part_number |-> PyGet(transceivers[if_name], "part_number", Some("")),
             serial_number |-> PyGet(transceivers[if_name], "serial_number", Some(""))]]

\* the row of one interface, lines 84-108; None stands for the ValueError of
\* line 87
InterfaceDomRow(interface, device_data) ==
    LET if_name == PyGet(interface, "if_name", <<>>)
    IN  IF if_name = <<>> THEN None
        ELSE LET parent_if_name == parse_interface_base_name(if_name)
                 chassis_data == PyGet(ChassisLookup(device_data), parent_if_name,
                                       EmptyDict)
             IN  Some(Columns(DeviceColumns(device_data),
                     [device_profile |-> PyGet(device_data, "device_profile", Some("")),
                      vendor |-> Some(PyGet(interface, "vendor", "")),
                      media_type |-> Some(PyGet(interface, "media_type", "")),
                      fiber_type |-> Some(PyGet(interface, "fiber_type", "")),
                      if_name |-> Some(if_name),
                      temperature |-> PyGet(interface, "temperature", None),
                      voltage |-> PyGet(interface, "voltage", None),
                      part_number |->
                          IF Truthy(PyGet(chassis_data, "part_number", None))
                          THEN chassis_data["part_number"]
                          ELSE Some(PyGet(interface, "part_number", "")),
                      serial_number |-> PyGet(chassis_data, "serial_number", Some(""))]))

\* the row of one lane, lines 132-157; None stands for the ValueError of
\* line 144
LaneDomRow(lane, device_data) ==
    LET if_name == PyGet(lane, "if_name", <<>>)
        lane_id == PyGet(lane, "lane", None)
        tx_bias == PyGet(lane, "tx_bias", None)
        tx_power == PyGet(lane, "tx_power", None)
        rx_power == PyGet(lane, "rx_power", None)
    IN  IF \/ if_name = <<>>
           \/ IsNone(lane_id)
           \/ IsNone(tx_bias)
           \/ IsNone(tx_power)
           \/ IsNone(rx_power)
        THEN None
        ELSE Some(Columns(DeviceColumns(device_data),
                 [if_name |-> Some(if_name), lane |-> lane_id, tx_bias |-> tx_bias,
                  tx_power |-> tx_power, rx_power |-> rx_power]))

\* the row of one record of interface_statistics, lines 183-203
CounterColumns ==
    {"speed_bps", "input_bps", "input_pps", "output_bps", "output_pps", "fec_ccw",
     "fec_nccw", "fec_ccw_error_rate", "fec_nccw_error_rate", "pre_fec_ber"}
InterfaceCounterRow(interface, device_data) ==
    Some(Columns(Columns(DeviceColumns(device_data),
                    [if_name |-> Some(PyGet(interface, "if_name", <<>>)),
                     admin_status |-> Some(PyGet(interface, "admin_status", "")),
                     oper_status |-> Some(PyGet(interface, "oper_status", ""))]),
                 [k \in CounterColumns |-> PyGet(interface, k, None)]))

\* the rows of the records in turn; None as soon as one of them raises
RECURSIVE RowsOf(_, _, _)
RowsOf(kind, records, device_data) ==
    IF records = <<>> THEN Some(<<>>)
    ELSE LET row == CASE kind = "interface_dom" ->
                            InterfaceDomRow(Head(records), device_data)
                      [] kind = "lane_dom" -> LaneDomRow(Head(records), device_data)
                      [] OTHER -> InterfaceCounterRow(Head(records), device_data)
             rest == RowsOf(kind, Tail(records), device_data)
         IN  IF IsNone(row) \/ IsNone(rest) THEN None
             ELSE Some(<<Val(row)>> \o Val(rest))

extract_interface_dom_metrics(device_data) ==
    RowsOf("interface_dom",
           PyGet(PyGet(device_data, "optics_diagnostics", EmptyDict), "interfaces", <<>>),
           device_data)
extract_lane_dom_metrics(device_data) ==
    RowsOf("lane_dom",
           PyGet(PyGet(device_data, "optics_diagnostics", EmptyDict), "lanes", <<>>),
           device_data)
extract_interface_counters(device_data) ==
    RowsOf("interface_counters",
           PyGet(PyGet(device_data, "interface_statistics", EmptyDict), "interfaces",
                 <<>>),
           device_data)

\* the loop of lines 319-360 over the devices in the order given:
\* [interface_dom, lane_dom, interface_counters, errors]
RECURSIVE AllDevices(_, _)
AllDevices(order, files) ==
    IF order = <<>>
    THEN [interface_dom |-> <<>>, lane_dom |-> <<>>, interface_counters |-> <<>>,
          errors |-> <<>>]
    ELSE LET device == Head(order)
             device_data == DeviceData(device, files[device])
             interface_dom == extract_interface_dom_metrics(device_data)
             lane_dom == extract_lane_dom_metrics(device_data)
             interface_counters == extract_interface_counters(device_data)
             rest == AllDevices(Tail(order), files)
         IN  IF IsNone(interface_dom) \/ IsNone(lane_dom)
             THEN [rest EXCEPT !.errors = <<device>> \o @]
             ELSE [interface_dom |-> Val(interface_dom) \o rest.interface_dom,
                   lane_dom |-> Val(lane_dom) \o rest.lane_dom,
                   interface_counters |->
                       Val(interface_counters) \o rest.interface_counters,
                   errors |-> rest.errors]

\* write_parquet_file, lines 209-244: no file for no rows; the string columns
\* pass through astype(str), which spells a None as the text None
StringColumns ==
    {"origin_hostname", "origin_name", "inventory_instance", "device_profile", "vendor",
     "media_type", "fiber_type", "if_name", "part_number", "admin_status", "oper_status"}
write_parquet_file(rows) ==
    IF rows = <<>> THEN None
    ELSE Some([i \in DOMAIN rows |->
                  [k \in DOMAIN rows[i] |->
                      IF k \in StringColumns /\ IsNone(rows[i][k]) THEN Some("None")
                      ELSE rows[i][k]]])

\* the metrics files of a device.  The optics_diagnostics file is what
\* merge_metadata made of the chassis inventory in the chassis_inventory file,
\* of a slot detail and of the diagnostics records
HourlyDevices == {"r1", "r2"}
HourlyInterface(name) ==
    [device |-> DEVICE, if_name |-> name, temperature |-> Some(45), voltage |-> None]
HourlyLane(name, tx_bias) ==
    [device |-> DEVICE, if_name |-> name, lane |-> Some(0), tx_bias |-> tx_bias,
     tx_power |-> Some(-2), rx_power |-> Some(-3)]
HourlyName == IfName(XE, <<"0", "/", "0", "/", "6">>, <<":", "1">>)
HourlyInterfaceLists ==
    {<<>>, <<HourlyInterface(K6)>>, <<HourlyInterface(HourlyName)>>,
     <<HourlyInterface(<<>>)>>}
HourlyLaneLists ==
    {<<>>, <<HourlyLane(K6, Some(6))>>, <<HourlyLane(K6, None)>>,
     <<HourlyLane(K6, None), HourlyLane(HourlyName, Some(6))>>}
HourlyChassis ==
    {[origin_name |-> Some("SN-DEV"), transceivers |-> EmptyDict],
     [origin_name |-> Some("SN-DEV"),
      transceivers |-> [k \in {K6} |-> ChassisTransceiver(ChassisFields, None)]]}
HourlyPic ==
    {None, Some([transceivers |-> [k \in {K6} |-> PicTransceiver(PicFields, None)]])}
HourlyCounters ==
    [interfaces |-> <<[if_name |-> K6, device |-> DEVICE, oper_status |-> "up",
                       fec_ccw |-> Some(40), fec_nccw |-> Some(0)]>>]
MetricsFiles(device) ==
    {LET files == [chassis_inventory |-> chassis,
                   optics_diagnostics |->
                       merge_metadata(PicSystemInfo, chassis,
                                      [interfaces |-> interfaces, lanes |-> lanes], pic),
                   interface_statistics |-> HourlyCounters]
     IN  IF device = "r1"
         THEN Put(files, "system_information",
                  [device |-> Some(device), origin_hostname |-> Some("router1"),
                   device_profile |-> Some("Juniper_QFX5220")])
         ELSE files :
        chassis \in HourlyChassis, pic \in HourlyPic,
        interfaces \in HourlyInterfaceLists, lanes \in HourlyLaneLists}
\* the orders in which the devices of a dict can come
Orders(S) ==
    {order \in UNION {[1..n -> S] : n \in {Cardinality(S)}} :
        \A i, j \in DOMAIN order : i # j => order[i] # order[j]}

HourlyInit ==
    /\ \E present \in SUBSET HourlyDevices :
          \E files1 \in MetricsFiles("r1"), files2 \in MetricsFiles("r2") :
              device_files = [d \in present |-> IF d = "r1" THEN files1 ELSE files2]
    /\ hourly_interface_dom = EmptyDict
    /\ hourly_written = None
    /\ hourly_stderr = <<>>
    /\ hourly_exit = None

HourlyIdle ==
    /\ device_files = EmptyDict
    /\ hourly_interface_dom = EmptyDict
    /\ hourly_written = None
    /\ hourly_stderr = <<>>
    /\ hourly_exit = Some(0)

\* process_all_devices(metrics_dir, base_dir, cluster_name, runner_name,
\* partition_dir, run_timestamp, compression), lines 247-393
ProcessAllDevices ==
    /\ IsNone(hourly_exit)
    /\ IF DOMAIN device_files = {}
       THEN /\ hourly_exit' = Some(1)
            /\ UNCHANGED <<hourly_interface_dom, hourly_written, hourly_stderr>>
       ELSE \E order \in Orders(DOMAIN device_files) :
                LET all == AllDevices(order, device_files)
                IN  /\ hourly_interface_dom' =
                           [d \in DOMAIN device_files |->
                               extract_interface_dom_metrics(
                                   DeviceData(d, device_files[d]))]
                    /\ hourly_written' =
                           Some([interface_dom |-> write_parquet_file(all.interface_dom),
                                 lane_dom |-> write_parquet_file(all.lane_dom),
                                 interface_counters |->
                                     write_parquet_file(all.interface_counters)])
                    /\ hourly_stderr' = all.errors
                    /\ hourly_exit' = Some(0)
    /\ UNCHANGED device_files

(***************************************************************************)
(* Specifications: one per component, the other components idle            *)
(***************************************************************************)
NameIdle ==
    /\ interface_name = <<>>
    /\ base_name = None
    /\ base_name2 = None
    /\ name_pc = "idle"

NameNext ==
    (Canonicalize \/ Recanonicalize)
        /\ UNCHANGED <<tput_vars, optics_vars, merge_vars, resolve_vars, fiber_vars, chassis_vars, pic_vars, prom_vars, stats_vars, hourly_vars>>
NameSpecInit ==
    /\ NameInit
    /\ TputInit
    /\ OpticsIdle
    /\ MergeIdle
    /\ ResolveIdle
    /\ FiberIdle
    /\ ChassisIdle
    /\ PicIdle
    /\ PromIdle
    /\ StatsInit
    /\ HourlyIdle
SpecName == NameSpecInit /\ [][NameNext]_vars

TputNext ==
    CalculateThroughput
        /\ UNCHANGED <<name_vars, optics_vars, merge_vars, resolve_vars, fiber_vars, chassis_vars, pic_vars, prom_vars, stats_vars, hourly_vars>>
TputSpecInit ==
    /\ NameIdle
    /\ TputInit
    /\ OpticsIdle
    /\ MergeIdle
    /\ ResolveIdle
    /\ FiberIdle
    /\ ChassisIdle
    /\ PicIdle
    /\ PromIdle
    /\ StatsInit
    /\ HourlyIdle
SpecTput == TputSpecInit /\ [][TputNext]_vars

OpticsNext ==
    ParseOpticalDiagnostics
        /\ UNCHANGED <<name_vars, tput_vars, merge_vars, resolve_vars, fiber_vars, chassis_vars, pic_vars, prom_vars, stats_vars, hourly_vars>>
OpticsSpecInit ==
    /\ NameIdle
    /\ TputInit
    /\ OpticsInit
    /\ MergeIdle
    /\ ResolveIdle
    /\ FiberIdle
    /\ ChassisIdle
    /\ PicIdle
    /\ PromIdle
    /\ StatsInit
    /\ HourlyIdle
SpecOptics == OpticsSpecInit /\ [][OpticsNext]_vars

MergeNext ==
    (MergeMetadata \/ Remerge)
        /\ UNCHANGED <<name_vars, tput_vars, optics_vars, resolve_vars, fiber_vars, chassis_vars, pic_vars, prom_vars, stats_vars, hourly_vars>>
MergeSpecInit ==
    /\ NameIdle
    /\ TputInit
    /\ OpticsIdle
    /\ MergeInit
    /\ ResolveIdle
    /\ FiberIdle
    /\ ChassisIdle
    /\ PicIdle
    /\ PromIdle
    /\ StatsInit
    /\ HourlyIdle
SpecMerge == MergeSpecInit /\ [][MergeNext]_vars

ResolveNext ==
    ParseJuniperInterfaceName
        /\ UNCHANGED <<name_vars, tput_vars, optics_vars, merge_vars, fiber_vars, chassis_vars, pic_vars, prom_vars, stats_vars, hourly_vars>>
ResolveSpecInit ==
    /\ NameIdle
    /\ TputInit
    /\ OpticsIdle
    /\ MergeIdle
    /\ ResolveInit
    /\ FiberIdle
    /\ ChassisIdle
    /\ PicIdle
    /\ PromIdle
    /\ StatsInit
    /\ HourlyIdle
SpecResolve == ResolveSpecInit /\ [][ResolveNext]_vars

FiberNext ==
    DetermineFiberType
        /\ UNCHANGED <<name_vars, tput_vars, optics_vars, merge_vars, resolve_vars, chassis_vars, pic_vars, prom_vars, stats_vars, hourly_vars>>
FiberSpecInit ==
    /\ NameIdle
    /\ TputInit
    /\ OpticsIdle
    /\ MergeIdle
    /\ ResolveIdle
    /\ FiberInit
    /\ ChassisIdle
    /\ PicIdle
    /\ PromIdle
    /\ StatsInit
    /\ HourlyIdle
SpecFiber == FiberSpecInit /\ [][FiberNext]_vars

ChassisNext ==
    ParseChassisInventory
        /\ UNCHANGED <<name_vars, tput_vars, optics_vars, merge_vars, resolve_vars, fiber_vars, pic_vars, prom_vars, stats_vars, hourly_vars>>
ChassisSpecInit ==
    /\ NameIdle
    /\ TputInit
    /\ OpticsIdle
    /\ MergeIdle
    /\ ResolveIdle
    /\ FiberIdle
    /\ ChassisInit
    /\ PicIdle
    /\ PromIdle
    /\ StatsInit
    /\ HourlyIdle
SpecChassis == ChassisSpecInit /\ [][ChassisNext]_vars

PicNext ==
    (ParsePicDetail \/ FusePicDetail)
        /\ UNCHANGED <<name_vars, tput_vars, optics_vars, merge_vars, resolve_vars, fiber_vars, chassis_vars, prom_vars, stats_vars, hourly_vars>>
PicSpecInit ==
    /\ NameIdle
    /\ TputInit
    /\ OpticsIdle
    /\ MergeIdle
    /\ ResolveIdle
    /\ FiberIdle
    /\ ChassisIdle
    /\ PicInit
    /\ PromIdle
    /\ StatsInit
    /\ HourlyIdle
SpecPic == PicSpecInit /\ [][PicNext]_vars

PromNext ==
    JsonToPrometheus
        /\ UNCHANGED <<name_vars, tput_vars, optics_vars, merge_vars, resolve_vars, fiber_vars, chassis_vars, pic_vars, stats_vars, hourly_vars>>
PromSpecInit ==
    /\ NameIdle
    /\ TputInit
    /\ OpticsIdle
    /\ MergeIdle
    /\ ResolveIdle
    /\ FiberIdle
    /\ ChassisIdle
    /\ PicIdle
    /\ PromInit
    /\ StatsInit
    /\ HourlyIdle
SpecProm == PromSpecInit /\ [][PromNext]_vars

StatsNext ==
    CollectStatistics
        /\ UNCHANGED <<name_vars, tput_vars, optics_vars, merge_vars, resolve_vars, fiber_vars, chassis_vars, pic_vars, prom_vars, hourly_vars>>
StatsSpecInit ==
    /\ NameIdle
    /\ TputInit
    /\ OpticsIdle
    /\ MergeIdle
    /\ ResolveIdle
    /\ FiberIdle
    /\ ChassisIdle
    /\ PicIdle
    /\ PromIdle
    /\ StatsInit
    /\ HourlyIdle
SpecStats == StatsSpecInit /\ [][StatsNext]_vars

HourlyNext ==
    ProcessAllDevices
        /\ UNCHANGED <<name_vars, tput_vars, optics_vars, merge_vars, resolve_vars, fiber_vars, chassis_vars, pic_vars, prom_vars, stats_vars>>
HourlySpecInit ==
    /\ NameIdle
    /\ TputInit
    /\ OpticsIdle
    /\ MergeIdle
    /\ ResolveIdle
    /\ FiberIdle
    /\ ChassisIdle
    /\ PicIdle
    /\ PromIdle
    /\ StatsInit
    /\ HourlyInit
SpecHourly == HourlySpecInit /\ [][HourlyNext]_vars

\* the two extractors side by side, each on a document that fails to parse, an
\* empty one or a plain one
ExtractNext ==
    \/ ParseOpticalDiagnostics
           /\ UNCHANGED <<name_vars, tput_vars, merge_vars, resolve_vars, fiber_vars, chassis_vars, pic_vars, prom_vars, stats_vars, hourly_vars>>
    \/ ParseChassisInventory
           /\ UNCHANGED <<name_vars, tput_vars, merge_vars, resolve_vars, fiber_vars, optics_vars, pic_vars, prom_vars, stats_vars, hourly_vars>>
ExtractSpecInit ==
    /\ NameIdle
    /\ TputInit
    /\ MergeIdle
    /\ ResolveIdle
    /\ FiberIdle
    /\ PicIdle
    /\ PromIdle
    /\ StatsInit
    /\ HourlyIdle
    /\ ChassisInit
    /\ chassis_hint = None
    /\ xml_content \in {None, Some(<<>>), Some(<<PhysAt(1, PlainChoice)>>)}
    /\ additional_metadata = None
    /\ optics_result = None
    /\ optics_pc = "in"
    /\ optics_stderr = <<>>
SpecExtract == ExtractSpecInit /\ [][ExtractNext]_vars

(***************************************************************************)
(* Claims about the counter-delta calculator (SpecTput)                    *)
(***************************************************************************)
DeltaFields == {"fec_ccw_delta", "fec_nccw_delta", "fec_ccw_rate",
                "fec_nccw_rate", "collection_interval_sec"}
\* the timestamp and counter values of an interface record, as a saved state
SavedFrom(data) ==
    [timestamp |-> data["timestamp"],
     fec_ccw_count |-> IF "fec_ccw_count" \in DOMAIN data
                       THEN Some(data["fec_ccw_count"]) ELSE None,
     fec_nccw_count |-> IF "fec_nccw_count" \in DOMAIN data
                        THEN Some(data["fec_nccw_count"]) ELSE None]
\* the saved state of the key of an interface record
Persisted(data) == state_dir[get_state_file(data["device"], data["if_name"])]
Called == ~IsNone(tput_out)
FirstCall == Called /\ IsNone(observed_before)
LaterCall == Called /\ ~IsNone(observed_before)
\* currentTimestamp - previousTimestamp of the latest call, in microseconds
Interval == Val(tput_in)["timestamp"] - Val(observed_before)["timestamp"]

\* C3: a call for a (device, interface) key never observed before returns the five
\* delta, rate and interval fields present and None, and leaves the current
\* timestamp and counters saved under that key.
C3_ColdStart ==
    FirstCall =>
        /\ \A f \in DeltaFields :
               f \in DOMAIN Val(tput_out) /\ Val(tput_out)[f] = None
        /\ Persisted(Val(tput_in)) = Some(SavedFrom(Val(tput_in)))

C3_Witness ==
    /\ FirstCall
    /\ {"fec_ccw_count", "fec_nccw_count"} \subseteq DOMAIN Val(tput_in)

\* the delta, rate and interval claimed for one counter carried by both the
\* current record and the previous one
CounterDeltaOk(counter, delta_key, rate_key) ==
    LET cur == Val(tput_in)
        prev == Val(observed_before)
        out == Val(tput_out)
    IN  (counter \in DOMAIN cur /\ counter \in DOMAIN prev) =>
            /\ delta_key \in DOMAIN out
            /\ out[delta_key] = Some(cur[counter] - prev[counter])
            /\ rate_key \in DOMAIN out
            /\ out[rate_key] = Some(Frac((cur[counter] - prev[counter]) * MICROS,
                                         Interval))

\* C4: with a previous observation and a strictly positive interval, each counter
\* present in both observations gets delta = current - previous (negative when the
\* counter went down), rate = delta / intervalSeconds, whatever the other counter
\* holds, and collection_interval_sec = (current - previous timestamp) / 1e6.
C4_DeltaAndRate ==
    (LaterCall /\ Interval > 0) =>
        /\ CounterDeltaOk("fec_ccw_count", "fec_ccw_delta", "fec_ccw_rate")
        /\ CounterDeltaOk("fec_nccw_count", "fec_nccw_delta", "fec_nccw_rate")
        /\ "collection_interval_sec" \in DOMAIN Val(tput_out)
        /\ Val(tput_out)["collection_interval_sec"] = Some(Frac(Interval, MICROS))

\* counter 40, then 100 ten seconds later: delta 60, rate 6.0; the other counter
\* is missing from the current record
C4_Witness ==
    /\ LaterCall
    /\ Interval = 10 * MICROS
    /\ "fec_ccw_count" \in DOMAIN Val(observed_before)
    /\ Val(observed_before)["fec_ccw_count"] = 40
    /\ "fec_ccw_count" \in DOMAIN Val(tput_in)
    /\ Val(tput_in)["fec_ccw_count"] = 100
    /\ "fec_nccw_count" \notin DOMAIN Val(tput_in)
    /\ Val(tput_out)["fec_ccw_delta"] = Some(60)
    /\ Val(tput_out)["fec_ccw_rate"] = Some(<<6, 1>>)
    /\ Val(tput_out)["collection_interval_sec"] = Some(<<10, 1>>)

\* C5: with a previous observation and an interval that is zero or negative, the
\* record comes back with no delta, rate or interval field, and the current
\* timestamp and counters replace the saved state.
C5_NonPositiveInterval ==
    (LaterCall /\ Interval <= 0) =>
        /\ DeltaFields \cap DOMAIN Val(tput_out) = {}
        /\ Persisted(Val(tput_in)) = Some(SavedFrom(Val(tput_in)))

C5_Witness ==
    /\ LaterCall
    /\ Interval < 0
    /\ "fec_ccw_count" \in DOMAIN Val(tput_in)
    /\ "fec_ccw_count" \in DOMAIN Val(observed_before)
    /\ Val(tput_in)["fec_ccw_count"] # Val(observed_before)["fec_ccw_count"]

C10_CanonicalizeIdempotent ==
    /\ name_pc = "twice" => base_name2 = base_name
    /\ name_pc \in {"once", "twice"} =>
           \A p \in Prefixes, c \in Coordinates, s \in ChannelSuffixes :
               interface_name = IfName(p, c, s) =>
                   /\ \E q \in Prefixes : Val(base_name) = IfName(q, c, <<>>)
                   /\ p \in {XE, ET} => Val(base_name) = IfName(ET, c, <<>>)

\* C11: the names xe-m/s/p, ge-m/s/p and et-m/s/p, one per prefix the platform
\* table can produce, all come back from parse_interface_base_name as et-m/s/p.
C11_PrefixesAgree ==
    name_pc \in {"once", "twice"} =>
        \A p \in Prefixes, c \in Coordinates :
            interface_name = IfName(p, c, <<>>) => Val(base_name) = IfName(ET, c, <<>>)

\* xe-1/2/48:2 canonicalized twice
C10_Witness ==
    /\ name_pc = "twice"
    /\ interface_name = IfName(XE, <<"1", "/", "2", "/", "4", "8">>, <<":", "2">>)
    /\ Val(base_name2) = IfName(ET, <<"1", "/", "2", "/", "4", "8">>, <<>>)

(***************************************************************************)
(* Claims about the optical diagnostics extractor (SpecOptics)             *)
(***************************************************************************)
Parsed == optics_pc = "done" /\ ~IsNone(xml_content)
Doc == Val(xml_content)
\* the three states of a physical interface
NoDiagnostics(phys) == IsNone(phys.diag) \/ Val(phys.diag).marker
InterfaceScoped(phys) == ~NoDiagnostics(phys) /\ Len(Val(phys.diag).lanes) = 0
LaneScoped(phys) == ~NoDiagnostics(phys) /\ Len(Val(phys.diag).lanes) >= 1
\* where the records of the i-th physical interface would sit in the result
RecordIndex(i) == Cardinality({ j \in 1..i : ~NoDiagnostics(Doc[j]) })
RECURSIVE LanesBefore(_)
LanesBefore(i) ==
    IF i <= 1 THEN 0
    ELSE LanesBefore(i - 1)
         + (IF NoDiagnostics(Doc[i - 1]) THEN 0 ELSE Len(Val(Doc[i - 1].diag).lanes))

\* C7 (as claimed): the interface record of a physical interface with diagnostics,
\* no not-available marker and no lane-value element carries tx_bias, tx_power,
\* tx_power_mw, rx_power and rx_power_mw read from the subtree, and the interface
\* has no lane record.
C7_InterfaceScopedDom ==
    Parsed =>
        \A i \in DOMAIN Doc :
            InterfaceScoped(Doc[i]) =>
                LET rec == Val(optics_result).interfaces[RecordIndex(i)]
                IN  /\ \A f \in DomFields :
                           /\ f \in DOMAIN rec
                           /\ rec[f] = extract_numeric_value(
                                           findtext_ns(Val(Doc[i].diag), DomTags[f]))
                    /\ \A l \in DOMAIN Val(optics_result).lanes :
                           Val(optics_result).lanes[l]["if_name"]
                               # rec["if_name"]

\* C8: for a physical interface with lane-value elements (every lane-index an
\* integer, so that the call returns), the interface record carries every
\* threshold read from the subtree and no DOM value, and the lane list holds, in
\* document order, one record per lane-value element, with the integer of its
\* lane-index field and the DOM values of that element.
C8_LaneScoped ==
    Parsed =>
        \A i \in DOMAIN Doc :
            LaneScoped(Doc[i]) =>
                LET diag == Val(Doc[i].diag)
                    rec == Val(optics_result).interfaces[RecordIndex(i)]
                    lanes == Val(optics_result).lanes
                IN  /\ rec["if_name"] = Val(Doc[i].name)
                    /\ \A m \in DOMAIN ThresholdTags :
                           /\ m \in DOMAIN rec
                           /\ rec[m] = extract_numeric_value(
                                           findtext_ns(diag, ThresholdTags[m]))
                    /\ \A f \in DomFields : f \notin DOMAIN rec \/ rec[f] = None
                    /\ Cardinality({ l \in DOMAIN lanes :
                                       lanes[l]["if_name"] = Val(Doc[i].name) })
                           = Len(diag.lanes)
                    /\ \A j \in 1..Len(diag.lanes) :
                           LET lane == lanes[LanesBefore(i) + j]
                           IN  /\ lane["if_name"] = Val(Doc[i].name)
                               /\ ~IsNone(diag.lanes[j].lane_index) =>
                                      lane["lane"] = Val(diag.lanes[j].lane_index)[1][2]
                               /\ \A f \in DomFields :
                                      lane[f] = extract_numeric_value(
                                                    findtext_ns(diag.lanes[j], DomTags[f]))

\* lanes 3 and 0, in that order, with numeric readings
C8_Witness ==
    /\ Parsed
    /\ Len(Doc) >= 1
    /\ LaneScoped(Doc[1])
    /\ Val(Doc[1].diag).kind = "numeric"
    /\ Len(Val(optics_result).lanes) = 2
    /\ Val(optics_result).lanes[1]["lane"] = 3
    /\ Val(optics_result).lanes[2]["lane"] = 0
    /\ Val(optics_result).lanes[1]["tx_bias"] # Val(optics_result).lanes[2]["tx_bias"]
    /\ ~IsNone(Val(optics_result).interfaces[1]["tx_bias_high_alarm"])

\* C9: a physical interface without optics-diagnostics child, or whose
\* optics-diagnostics has the not-available marker, adds no interface record and
\* no lane record, lane-value elements or not: the interface records are those of
\* the other physical interfaces and the lane records those of their lane-value
\* elements.
C9_NoDiagnostics ==
    Parsed =>
        /\ Len(Val(optics_result).interfaces) = RecordIndex(Len(Doc))
        /\ Len(Val(optics_result).lanes) = LanesBefore(Len(Doc) + 1)
        /\ \A i \in DOMAIN Doc :
               (NoDiagnostics(Doc[i]) /\ ~IsNone(Doc[i].name)) =>
                   /\ \A r \in DOMAIN Val(optics_result).interfaces :
                          Val(optics_result).interfaces[r]["if_name"] # Val(Doc[i].name)
                   /\ \A l \in DOMAIN Val(optics_result).lanes :
                          Val(optics_result).lanes[l]["if_name"] # Val(Doc[i].name)

\* the marker next to two lane-value elements
C9_Witness ==
    /\ Parsed
    /\ Len(Doc) >= 1
    /\ ~IsNone(Doc[1].diag)
    /\ Val(Doc[1].diag).marker
    /\ Len(Val(Doc[1].diag).lanes) = 2
    /\ Val(optics_result).interfaces = <<>>
    /\ Val(optics_result).lanes = <<>>


(***************************************************************************)
(* Claims about the metadata fusion engine (SpecMerge)                     *)
(***************************************************************************)
Merged == merge_pc = "done"
\* the fused records, interface records and lane records alike
FusedInterfaces ==
    {Val(merged_metrics).interfaces[i] : i \in DOMAIN Val(merged_metrics).interfaces}
FusedLanes == {Val(merged_metrics).lanes[i] : i \in DOMAIN Val(merged_metrics).lanes}
FusedRecords == FusedInterfaces \cup FusedLanes
Named(rec) == "if_name" \in DOMAIN rec
\* the parent canonical name of a record: its name without the channel suffix,
\* under the canonical prefix
ParentName(rec) ==
    LET port == IF HasColon(rec["if_name"])
                THEN BeforeFirstColon(rec["if_name"]) ELSE rec["if_name"]
    IN  ET \o SubSeq(port, Len(ET) + 1, Len(port))
\* what the chassis inventory and the slot detail hold under a name for a field
ChassisAt(k, f) ==
    IF k \in DOMAIN chassis_inv.transceivers
    THEN Get(chassis_inv.transceivers[k], f) ELSE None
PicAt(k, f) ==
    IF ~IsNone(pic_detail) /\ k \in DOMAIN Val(pic_detail).transceivers
    THEN Get(Val(pic_detail).transceivers[k], f) ELSE None
PrecedenceFields == {"vendor", "part_number", "media_type", "fiber_type"}
SlotMetadata == {"vendor", "part_number", "serial_number", "media_type", "fiber_type",
                 "cable_type", "wavelength", "firmware_version"}

\* C1: in every fused interface record and lane record, each of vendor,
\* part_number, media_type and fiber_type holds the slot-detail value of the
\* record's parent interface when that value is non-empty, whatever the chassis
\* inventory says; when the slot detail has none, it holds the chassis value if
\* there is one, and is not set otherwise.
C1_FusionPrecedence ==
    Merged =>
        \A rec \in FusedRecords : Named(rec) =>
            \A f \in PrecedenceFields :
                LET pic == PicAt(ParentName(rec), f)
                    chassis == ChassisAt(ParentName(rec), f)
                IN  /\ Truthy(pic) => f \in DOMAIN rec /\ rec[f] = Val(pic)
                    /\ ~Truthy(pic) /\ Truthy(chassis) =>
                           f \in DOMAIN rec /\ rec[f] = Val(chassis)
                    /\ ~Truthy(pic) /\ ~Truthy(chassis) => f \notin DOMAIN rec

C1_Witness ==
    /\ Merged
    /\ \E rec \in FusedInterfaces, lane \in FusedLanes :
          /\ Named(rec) /\ Named(lane)
          /\ ChassisAt(ParentName(rec), "vendor") = Some("VendorA")
          /\ PicAt(ParentName(rec), "vendor") = Some("VendorB")
          /\ Get(rec, "vendor") = "VendorB"
          /\ ~Truthy(PicAt(ParentName(lane), "fiber_type"))
          /\ Get(lane, "fiber_type") = FIBER_TYPE_MULTI_MODE

\* C2: a fused record carries a field of the slot-level metadata exactly when
\* the chassis inventory or the slot detail has a non-empty value for it under
\* the record's parent canonical name, so any two records of one port, channel
\* records and lane records alike, carry the same slot-level metadata.
C2_ParentKeyJoin ==
    Merged =>
        /\ \A rec \in FusedRecords : Named(rec) =>
               \A f \in SlotMetadata :
                   f \in DOMAIN rec <=>
                       \/ Truthy(ChassisAt(ParentName(rec), f))
                       \/ Truthy(PicAt(ParentName(rec), f))
        /\ \A r1, r2 \in FusedRecords :
               Named(r1) /\ Named(r2) /\ ParentName(r1) = ParentName(r2) =>
                   \A f \in SlotMetadata : Get(r1, f) = Get(r2, f)

C2_Witness ==
    /\ Merged
    /\ \E rec \in FusedInterfaces, lane \in FusedLanes :
          /\ Named(rec) /\ Named(lane)
          /\ rec["if_name"] # lane["if_name"]
          /\ HasColon(lane["if_name"])
          /\ ParentName(rec) = ParentName(lane)
          /\ \A f \in SlotMetadata :
                 f \in DOMAIN rec /\ f \in DOMAIN lane /\ rec[f] = lane[f]

(***************************************************************************)
(* Claims about parse_juniper_interface_name (SpecResolve)                 *)
(***************************************************************************)
Resolved == ~IsNone(resolved_name)
\* the table keys found in the hint, case ignored
MatchingKeys ==
    IF IsNone(resolve_args.platform_hint) THEN {}
    ELSE {i \in 1..Len(JUNIPER_PREFIX_MAP) :
              Contains(Lower(Val(resolve_args.platform_hint)), JUNIPER_PREFIX_MAP[i][1])}
\* the name under a prefix
NameUnder(prefix) ==
    prefix \o <<"-">> \o resolve_args.fpc \o <<"/">> \o resolve_args.pic
           \o <<"/">> \o resolve_args.port

\* C13: the name returned carries the prefix of the longest table key found in the
\* hint, case ignored, whatever the listing order of the table, and et when no
\* key is found.
C13_LongestKeyWins ==
    Resolved =>
        /\ MatchingKeys = {} => Val(resolved_name) = NameUnder(ET)
        /\ \A i \in MatchingKeys :
               (\A j \in MatchingKeys :
                    Len(JUNIPER_PREFIX_MAP[j][1]) <= Len(JUNIPER_PREFIX_MAP[i][1]))
                   => Val(resolved_name) = NameUnder(JUNIPER_PREFIX_MAP[i][2])

(***************************************************************************)
(* Claims about the fiber type classifier (SpecFiber)                      *)
(***************************************************************************)
Classified == fiber_pc = "done"
\* whether a text is given and has a multi-mode, a single-mode keyword of its step
MediaMm == ~IsNone(fiber_args.media_type) /\ MediaTexts[Val(fiber_args.media_type)][1]
MediaSm == ~IsNone(fiber_args.media_type) /\ MediaTexts[Val(fiber_args.media_type)][2]
DescMm == ~IsNone(fiber_args.description)
          /\ DescriptionTexts[Val(fiber_args.description)][1]
DescSm == ~IsNone(fiber_args.description)
          /\ DescriptionTexts[Val(fiber_args.description)][2]
\* the wavelength given, 0 when there is none
Nanometres == IF IsNone(fiber_args.wavelength_nm) THEN 0 ELSE Val(fiber_args.wavelength_nm)
WavelengthSingleMode == Nanometres \in {1310, 1550} \/ Nanometres \in 1270..1610
WavelengthSilent == Nanometres # 850 /\ ~WavelengthSingleMode
\* the first match of the ordered list: media-type multi-mode, media-type
\* single-mode, description multi-mode, description single-mode
FirstTextMatch ==
    IF MediaMm THEN Some(FIBER_TYPE_MULTI_MODE)
    ELSE IF MediaSm THEN Some(FIBER_TYPE_SINGLE_MODE)
    ELSE IF DescMm THEN Some(FIBER_TYPE_MULTI_MODE)
    ELSE IF DescSm THEN Some(FIBER_TYPE_SINGLE_MODE)
    ELSE None

\* C14: a wavelength of 850 gives multi-mode and a wavelength of 1310, 1550 or
\* within 1270..1610 gives single-mode, whatever the media type and description
\* say; with any other wavelength the media-type step gives the answer, so a
\* media-type keyword then decides.
C14_WavelengthWins ==
    Classified =>
        /\ Nanometres = 850 => fiber_type = Some(FIBER_TYPE_MULTI_MODE)
        /\ WavelengthSingleMode => fiber_type = Some(FIBER_TYPE_SINGLE_MODE)
        /\ (WavelengthSilent /\ ~IsNone(fiber_args.wavelength_nm)) =>
               /\ MediaMm => fiber_type = Some(FIBER_TYPE_MULTI_MODE)
               /\ (~MediaMm /\ MediaSm) => fiber_type = Some(FIBER_TYPE_SINGLE_MODE)

\* wavelength 1310 with a media type that has the SR keyword
C14_Witness ==
    /\ Classified
    /\ fiber_args.wavelength_nm = Some(1310)
    /\ fiber_args.media_type
           = Some(<<"1", "0", "0", "G", "B", "A", "S", "E", "-", "S", "R", "4">>)
    /\ fiber_type = Some(FIBER_TYPE_SINGLE_MODE)

\* C15: when the media-type step decides, a media type with a multi-mode keyword
\* is multi-mode even if it also has a single-mode keyword; and when the
\* description step decides, likewise for the description.
C15_MultiModeFirst ==
    (Classified /\ WavelengthSilent) =>
        /\ (MediaMm /\ MediaSm) => fiber_type = Some(FIBER_TYPE_MULTI_MODE)
        /\ (~MediaMm /\ ~MediaSm /\ DescMm /\ DescSm) =>
               fiber_type = Some(FIBER_TYPE_MULTI_MODE)

\* EX-SFP-10GE-SR has the keywords EX and SR
C15_Witness ==
    /\ Classified
    /\ WavelengthSilent
    /\ fiber_args.media_type
           = Some(<<"E", "X", "-", "S", "F", "P", "-", "1", "0", "G", "E", "-", "S", "R">>)
    /\ MediaMm /\ MediaSm
    /\ fiber_type = Some(FIBER_TYPE_MULTI_MODE)

\* C16: the result is the first match of the ordered list wavelength, media-type
\* multi-mode, media-type single-mode, description multi-mode, description
\* single-mode, and None (unknown) when nothing matches; in particular the
\* description is not consulted when the media type matches.
C16_FirstMatchWins ==
    Classified =>
        fiber_type = IF Nanometres = 850 THEN Some(FIBER_TYPE_MULTI_MODE)
                     ELSE IF WavelengthSingleMode THEN Some(FIBER_TYPE_SINGLE_MODE)
                     ELSE FirstTextMatch

\* a single-mode media type with a multi-mode description, and no wavelength
C16_Witness ==
    /\ Classified
    /\ IsNone(fiber_args.wavelength_nm)
    /\ ~MediaMm /\ MediaSm /\ DescMm
    /\ fiber_type = Some(FIBER_TYPE_SINGLE_MODE)

(***************************************************************************)
(* Claims about the chassis topology extractor (SpecChassis)               *)
(***************************************************************************)
ChassisParsed == ~IsNone(chassis_result)
\* the slot coordinates m/s/p a branch of the module tree names, when its three
\* element names are an FPC, a PIC and an Xcvr with a number
NamesSlot(branch) ==
    /\ branch.fpc = Some(<<"F", "P", "C", " ", "0">>)
    /\ branch.pic = Some(<<"P", "I", "C", " ", "0">>)
    /\ branch.xcvr.name \in {Some(<<"X", "c", "v", "r", " ", "6">>), Some(<<"X", "c", "v", "r", " ", "4", "8">>)}
SlotOf(branch) ==
    <<"0", "/", "0", "/">>
        \o (IF branch.xcvr.name = Some(<<"X", "c", "v", "r", " ", "6">>) THEN <<"6">> ELSE <<"4", "8">>)
ParsedBranches ==
    IF IsNone(chassis_xml) THEN {}
    ELSE {Val(chassis_xml).branches[i] : i \in DOMAIN Val(chassis_xml).branches}

\* C12: whatever the platform hint, every transceiver the inventory names under
\* FPC m / PIC s / Xcvr p is stored under the key et-m/s/p, which is the key
\* merge_metadata looks up for a diagnostics record of that port, spelled with
\* the canonical or the legacy prefix and with or without a channel suffix.
C12_ChassisKeyCanonical ==
    ChassisParsed =>
        \A branch \in ParsedBranches : NamesSlot(branch) =>
            /\ IfName(ET, SlotOf(branch), <<>>) \in DOMAIN Val(chassis_result).transceivers
            /\ \A p \in {ET, XE}, s \in ChannelSuffixes :
                   parse_interface_base_name(IfName(p, SlotOf(branch), s))
                       \in DOMAIN Val(chassis_result).transceivers

(***************************************************************************)
(* Claims about error handling in the optical diagnostics extractor        *)
(* (SpecOptics)                                                            *)
(***************************************************************************)
\* a physical interface with nothing wrong: a name, diagnostics without the
\* not-available marker, numeric readings and integer lane-index fields
WellFormed(phys) ==
    /\ ~IsNone(phys.name)
    /\ ~NoDiagnostics(phys)
    /\ Val(phys.diag).kind = "numeric"
    /\ \A j \in DOMAIN Val(phys.diag).lanes :
           /\ ~IsNone(Val(phys.diag).lanes[j].lane_index)
           /\ IsIntText(Val(phys.diag).lanes[j].lane_index)

\* C17: whatever is wrong with the other physical interfaces of a document
\* (non-numeric texts, a missing or non-integer lane-index, a missing name), the
\* call returns, and every well-formed physical interface has its interface
\* record, with the thresholds read from its subtree, and one lane record per
\* lane-value element.
C17_ErrorsAreLocal ==
    (optics_pc # "in" /\ ~IsNone(xml_content)) =>
        /\ optics_pc = "done"
        /\ \A i \in DOMAIN Doc : WellFormed(Doc[i]) =>
               /\ \E r \in DOMAIN Val(optics_result).interfaces :
                      LET rec == Val(optics_result).interfaces[r]
                      IN  /\ rec["if_name"] = Val(Doc[i].name)
                          /\ \A m \in DOMAIN ThresholdTags :
                                 rec[m] = extract_numeric_value(
                                              findtext_ns(Val(Doc[i].diag),
                                                          ThresholdTags[m]))
               /\ Cardinality({l \in DOMAIN Val(optics_result).lanes :
                                   Val(optics_result).lanes[l]["if_name"]
                                       = Val(Doc[i].name)})
                      = Len(Val(Doc[i].diag).lanes)

\* C18: every record of the extracted output, interface record or lane record,
\* carries the name of a physical interface of the document, so a physical
\* interface without a name element yields no record and no name is made up.
C18_NoSyntheticName ==
    Parsed =>
        LET names == {Val(Doc[i].name) : i \in {j \in DOMAIN Doc : ~IsNone(Doc[j].name)}}
        IN  /\ \A r \in DOMAIN Val(optics_result).interfaces :
                   Val(optics_result).interfaces[r]["if_name"] \in names
            /\ \A l \in DOMAIN Val(optics_result).lanes :
                   Val(optics_result).lanes[l]["if_name"] \in names

(***************************************************************************)
(* Claims about repeated fusion and about what fusion leaves alone         *)
(* (SpecMerge)                                                             *)
(***************************************************************************)
\* C19: fusing the fused records once more, with the same system identity,
\* chassis inventory and slot detail, returns them as they are.
C19_FusionIdempotent ==
    merge_pc = "twice" => remerged_metrics = merged_metrics

\* fused twice, with an interface record or a lane record that fusion gave a
\* device field and a transceiver field
C19_Witness ==
    /\ merge_pc = "twice"
    /\ \E rec \in FusedRecords :
           /\ "origin_hostname" \in DOMAIN rec
           /\ "vendor" \in DOMAIN rec
           /\ "cable_type" \in DOMAIN rec

\* the four arguments as they are now
MergeArguments ==
    [system_info |-> system_info, chassis_inv |-> chassis_inv,
     pic_detail |-> pic_detail, optics_metrics |-> optics_metrics]

DeviceFieldSources ==
    [origin_hostname |-> Get(system_info, "origin_hostname"),
     device_profile |-> Get(system_info, "device_profile"),
     origin_name |-> Get(chassis_inv, "origin_name")]
\* a record whose parent interface neither the chassis inventory nor the slot
\* detail knows, or that has no name at all
Unmatched(rec) ==
    \/ ~Named(rec)
    \/ /\ ParentName(rec) \notin DOMAIN chassis_inv.transceivers
       /\ IsNone(pic_detail) \/ ParentName(rec) \notin DOMAIN Val(pic_detail).transceivers

\* C21: every fused interface record and lane record carries each device-level
\* field (hostname, device profile, device serial) that the system information
\* or the chassis inventory gives with a non-empty value, with that value,
\* whether or not a transceiver is known for the record.
C21_DeviceFieldsOnEveryRecord ==
    Merged =>
        \A rec \in FusedRecords : \A f \in DOMAIN DeviceFieldSources :
            Truthy(DeviceFieldSources[f]) =>
                f \in DOMAIN rec /\ rec[f] = Val(DeviceFieldSources[f])

\* fused, all three device-level fields given, with an interface record and a
\* lane record for which no transceiver is known
C21_Witness ==
    /\ Merged
    /\ \A f \in DOMAIN DeviceFieldSources : Truthy(DeviceFieldSources[f])
    /\ \E rec \in FusedInterfaces : Unmatched(rec)
    /\ \E rec \in FusedLanes : Named(rec) /\ Unmatched(rec)

\* the fields fusion sets
FusionFields ==
    {"origin_hostname", "device_profile", "origin_name", "vendor", "part_number",
     "serial_number", "media_type", "cable_type", "wavelength", "fiber_type",
     "firmware_version"}
\* rec is before with nothing but fusion fields set
OnlyMetadataAdded(before, rec) ==
    /\ DOMAIN before \subseteq DOMAIN rec
    /\ \A f \in DOMAIN rec :
           f \in FusionFields \/ (f \in DOMAIN before /\ rec[f] = before[f])

\* C28: fusion returns as many interface records and lane records as it was
\* given, in the same order, and each returned record is the record it was
\* given with nothing changed but the device-level and transceiver fields
\* fusion sets.
C28_OnlyAddsMetadata ==
    Merged =>
        LET before == Val(merge_before).optics_metrics
            fused == Val(merged_metrics)
        IN  /\ DOMAIN fused.interfaces = DOMAIN before.interfaces
            /\ DOMAIN fused.lanes = DOMAIN before.lanes
            /\ \A i \in DOMAIN fused.interfaces :
                   OnlyMetadataAdded(before.interfaces[i], fused.interfaces[i])
            /\ \A i \in DOMAIN fused.lanes :
                   OnlyMetadataAdded(before.lanes[i], fused.lanes[i])

\* fused, with two interface records of different names of which the second
\* got transceiver fields, the first none
C28_Witness ==
    /\ Merged
    /\ Len(Val(merged_metrics).interfaces) = 2
    /\ LET fused == Val(merged_metrics).interfaces
       IN  /\ Named(fused[1]) /\ Named(fused[2])
           /\ fused[1]["if_name"] # fused[2]["if_name"]
           /\ "vendor" \notin DOMAIN fused[1]
           /\ "vendor" \in DOMAIN fused[2]
           /\ "origin_hostname" \in DOMAIN fused[2]

(***************************************************************************)
(* Claims about the slot detail extractor (SpecPic)                        *)
(***************************************************************************)
\* the port element of the document, when it has one with a port number
ThePort == Val(pic_xml)[1]
HasPort ==
    /\ ~IsNone(pic_xml)
    /\ Val(pic_xml) # <<>>
    /\ ~IsNone(ThePort["port-number"])
\* the child of the port element each slot-detail field is read from
SourceTag ==
    [vendor |-> "sfp-vendor-name", part_number |-> "sfp-vendor-pno",
     cable_type |-> "cable-type", media_type |-> "cable-type",
     wavelength |-> "wavelength", fiber_type |-> "fiber-mode",
     firmware_version |-> "sfp-vendor-fw-ver"]
\* the spellings that say a field is not populated
NotPopulated(f) ==
    {"n/a", "N/A", "NA", "None", ""} \cup (IF f = "firmware_version" THEN {"0.0"} ELSE {})
\* the source text of field f says the field is not populated
Unpopulated(f) ==
    /\ ~IsNone(ThePort[SourceTag[f]])
    /\ AsString(Val(ThePort[SourceTag[f]])) \in NotPopulated(f)
\* the fused records of the port and of its channel
PicFusedRecords ==
    {Val(pic_fused).interfaces[i] : i \in DOMAIN Val(pic_fused).interfaces}
        \cup {Val(pic_fused).lanes[i] : i \in DOMAIN Val(pic_fused).lanes}

\* C23: a slot-detail field whose source text says "not populated" (n/a, na,
\* none in any case, the empty text, and 0.0 for the firmware version) is not
\* in the transceiver the extractor returns; after fusion the fused records
\* hold for it the chassis value if the chassis inventory has one and no
\* value otherwise, never the text itself.
C23_SentinelIsAbsent ==
    /\ (HasPort /\ ~IsNone(pic_result)) =>
           \A name \in DOMAIN Val(pic_result).transceivers :
               \A f \in DOMAIN SourceTag :
                   Unpopulated(f) => f \notin DOMAIN Val(pic_result).transceivers[name]
    /\ (HasPort /\ ~IsNone(pic_fused)) =>
           \A rec \in PicFusedRecords : \A f \in DOMAIN SourceTag :
               Unpopulated(f) =>
                   IF f \in ChassisFields
                   THEN f \in DOMAIN rec /\ rec[f] = ChassisText[f]
                   ELSE f \notin DOMAIN rec

\* fused with a slot detail whose port is the port of the records and gives a
\* part number, while its vendor name and its firmware version read N/A
C23_Witness ==
    /\ HasPort
    /\ ~IsNone(pic_fused)
    /\ IsNone(pic_hint)
    /\ ThePort["sfp-vendor-name"] = Some(<<"N", "/", "A">>)
    /\ ThePort["sfp-vendor-fw-ver"] = Some(<<"N", "/", "A">>)
    /\ \A rec \in PicFusedRecords :
           /\ rec["part_number"] = PicText["part_number"]
           /\ rec["vendor"] = ChassisText["vendor"]
           /\ "firmware_version" \notin DOMAIN rec

Exported == ~IsNone(prom_lines)
ExportedLines == Val(prom_lines)
\* the labels of a line by name
LabelNames(line) == [i \in DOMAIN line.labels |-> line.labels[i][1]]
HasLaneLabel(line) == \E i \in DOMAIN line.labels : line.labels[i][1] = "lane"
\* the lines written for a metric, with and without a lane label
LaneLinesFor(name) ==
    {i \in DOMAIN ExportedLines :
        ExportedLines[i].name = name /\ HasLaneLabel(ExportedLines[i])}
PlainLinesFor(name) ==
    {i \in DOMAIN ExportedLines :
        ExportedLines[i].name = name /\ ~HasLaneLabel(ExportedLines[i])}
\* the records that carry a value, not a null, under a key
Carrying(recs, key) ==
    {i \in DOMAIN recs : key \in DOMAIN recs[i] /\ recs[i][key] # None}

\* C24: every line of the export begins its labels with device="<the record's
\* device>" and interface="<if_name>"; a line of an interface record has no
\* lane label, a line of a lane record has lane="<lane index>" next.
C24_DeviceAndInterfaceLabels ==
    Exported =>
        \A i \in DOMAIN ExportedLines :
            LET line == ExportedLines[i]
            IN  /\ Len(line.labels) >= 2
                /\ line.labels[1] = <<"device", DEVICE>>
                /\ line.labels[2][1] = "interface"
                /\ HasLaneLabel(line) => line.labels[3][1] = "lane"

\* C25: a null field gives no line.  For each DOM metric there are as many
\* lines without a lane label as interface records that carry a value for it,
\* and as many lines with a lane label as lane records that carry one; the
\* temperature, voltage and threshold readings of an interface record each
\* have their line without a lane label, whatever its DOM fields hold.
C25_NullGivesNoLine ==
    Exported =>
        /\ \A key \in DomKeys :
               /\ Cardinality(PlainLinesFor(key))
                      = Cardinality(Carrying(prom_data.interfaces, key))
               /\ Cardinality(LaneLinesFor(key))
                      = Cardinality(Carrying(prom_data.lanes, key))
        /\ \A key \in {"temperature", "voltage", "temperature_high_alarm",
                       "tx_bias_low_warn"} :
               /\ LaneLinesFor(key) = {}
               /\ \A r \in Carrying(prom_data.interfaces, key) :
                      \E i \in PlainLinesFor(key) :
                          ExportedLines[i].value = Val(prom_data.interfaces[r][key])
        /\ \A i \in DOMAIN ExportedLines :
               ExportedLines[i].name \in DomKeys =>
                   ExportedLines[i].value = DomReadings[ExportedLines[i].name]

\* exported: an interface record whose DOM fields are null and whose
\* temperature is read, and a lane record of its name with DOM readings
C25_Witness ==
    /\ Exported
    /\ Len(prom_data.interfaces) = 1
    /\ Len(prom_data.lanes) = 1
    /\ \A key \in DomKeys :
           /\ key \in DOMAIN prom_data.interfaces[1]
           /\ prom_data.interfaces[1][key] = None
           /\ Carrying(prom_data.lanes, key) = {1}
    /\ PlainLinesFor("temperature") # {}
    /\ LaneLinesFor("tx_bias") # {}

(***************************************************************************)
(* Claims about the isolation of counter state (SpecTput)                  *)
(***************************************************************************)
\* devices and interfaces whose state files are compared: two devices, a
\* port, two channels of it, another port and the port under a legacy prefix
IsolationKeys ==
    {R1, <<"r", "2">>, <<"1", "0", ".", "0", ".", "0", ".", "1">>}
        \X {IfName(ET, <<"0", "/", "0", "/", "6">>, <<>>),
            IfName(ET, <<"0", "/", "0", "/", "6">>, <<":", "1">>),
            IfName(ET, <<"0", "/", "0", "/", "6">>, <<":", "2">>),
            IfName(ET, <<"0", "/", "0", "/", "7">>, <<>>),
            IfName(XE, <<"0", "/", "0", "/", "6">>, <<>>)}
KeyOf(data) == <<data["device"], data["if_name"]>>

\* C26: distinct (device, interface) keys have distinct state files; in any
\* order of calls, the saved state of a key that was never called for stays
\* absent whatever was called for the other keys, a first call for a key loads
\* nothing even when other keys have saved state, and a call changes no saved
\* state but that of its own key.
C26_StatePerKey ==
    /\ \A k1 \in IsolationKeys, k2 \in IsolationKeys :
           k1 # k2 => get_state_file(k1[1], k1[2]) # get_state_file(k2[1], k2[2])
    /\ \A k \in Keys :
           IsNone(observed[k]) => IsNone(state_dir[get_state_file(k[1], k[2])])
    /\ FirstCall => IsNone(tput_prev)
    /\ Called =>
           \A k \in Keys \ {KeyOf(Val(tput_in))} :
               state_dir[get_state_file(k[1], k[2])]
                   = IF IsNone(observed[k]) THEN None
                     ELSE Some(SavedFrom(Val(observed[k])))

\* a first call for one key after the other key was called for, whose saved
\* state is still that of its own latest call
C26_Witness ==
    /\ FirstCall
    /\ \E k \in Keys \ {KeyOf(Val(tput_in))} :
           /\ ~IsNone(observed[k])
           /\ state_dir[get_state_file(k[1], k[2])] = Some(SavedFrom(Val(observed[k])))
           /\ SavedFrom(Val(observed[k])) # SavedFrom(Val(tput_in))

(***************************************************************************)
(* Claims about the interface statistics extractor and the post-pass       *)
(***************************************************************************)
\* the number each counter text shows
CounterShown ==
    (<<"4", "0">> :> 40) @@ (<<"1", "0", "0">> :> 100)
        @@ (<<"1", ",", "0", "4", "0">> :> 1040)
\* the corrected-codeword counter a document shows for the port, if any
ShownCcw(xml) ==
    IF IsNone(xml) \/ Val(xml) = <<>> THEN None
    ELSE LET interface == Val(xml)[1]
         IN  IF IsNone(interface.name) \/ IsNone(interface.fec) THEN None
             ELSE LET text == Val(interface.fec)["fec_ccw_count"]
                  IN  IF ~IsNone(text) /\ Val(text) \in DOMAIN CounterShown
                      THEN Some(CounterShown[Val(text)]) ELSE None
\* a second cycle, a positive number of seconds after the first, both on
\* documents that show the counter
SecondCycleApart ==
    /\ stats_cycle = 2
    /\ ~IsNone(stats_before)
    /\ stats_clock > Val(stats_before).clock
    /\ ~IsNone(ShownCcw(Val(stats_before).xml))
    /\ ~IsNone(ShownCcw(stats_xml))

\* C27: in a second collection cycle T > 0 seconds after the first, the record
\* process_metrics writes for an interface carries the delta of the counter
\* parse_interface_statistics extracted in the two cycles, the rate delta / T
\* and collection_interval_sec = T
C27_DeltaOfExtractedCounters ==
    SecondCycleApart =>
        LET T == stats_clock - Val(stats_before).clock
            delta == Val(ShownCcw(stats_xml)) - Val(ShownCcw(Val(stats_before).xml))
            interfaces == Val(stats_out)
        IN  /\ Len(interfaces) = 1
            /\ Get(interfaces[1], "fec_ccw_delta") = Some(delta)
            /\ Get(interfaces[1], "fec_ccw_rate") = Some(Frac(delta, T))
            /\ Get(interfaces[1], "collection_interval_sec") = Some(Frac(T, 1))
\* what the composition gives instead: no delta, no rate, and the interval in
\* millionths of the seconds elapsed
ComposedOutcome ==
    SecondCycleApart =>
        LET T == stats_clock - Val(stats_before).clock
            interfaces == Val(stats_out)
        IN  /\ Len(interfaces) = 1
            /\ "fec_ccw_delta" \notin DOMAIN interfaces[1]
            /\ "fec_ccw_rate" \notin DOMAIN interfaces[1]
            /\ Get(interfaces[1], "collection_interval_sec") = Some(Frac(T, MICROS))

(***************************************************************************)
(* Claims about the hourly storage pass                                    *)
(***************************************************************************)
\* the rows of a table written, none when no file was written
TableRows(table) == IF IsNone(table) THEN <<>> ELSE Val(table)
\* the records of a list of one metrics file of a device
FileRecords(d, type, list) == device_files[d][type][list]
\* an interface record with a name; a lane record with a name and all three
\* DOM values; any counter record
NamedRecord(rec) == "if_name" \in DOMAIN rec /\ rec["if_name"] # <<>>
FullLane(rec) ==
    /\ NamedRecord(rec)
    /\ \A k \in {"tx_bias", "tx_power", "rx_power"} : k \in DOMAIN rec /\ rec[k] # None
Sound(list, rec) ==
    CASE list = "lanes" -> FullLane(rec)
      [] list = "named" -> NamedRecord(rec)
      [] OTHER -> TRUE
\* how many records of a list of the devices' files are sound
RECURSIVE SoundRecords(_, _, _)
SoundRecords(devices, type, list) ==
    IF devices = {} THEN 0
    ELSE LET d == CHOOSE x \in devices : TRUE
             records == FileRecords(d, type, IF list = "named" THEN "interfaces" ELSE list)
         IN  Cardinality({i \in DOMAIN records : Sound(list, records[i])})
                 + SoundRecords(devices \ {d}, type, list)
\* some device has a lane without a DOM value or an interface without a name
SomeRecordUnsound ==
    \E d \in DOMAIN device_files :
        \/ \E i \in DOMAIN FileRecords(d, "optics_diagnostics", "lanes") :
               ~FullLane(FileRecords(d, "optics_diagnostics", "lanes")[i])
        \/ \E i \in DOMAIN FileRecords(d, "optics_diagnostics", "interfaces") :
               ~NamedRecord(FileRecords(d, "optics_diagnostics", "interfaces")[i])

\* C29: a lane record with an absent DOM value or an interface record with an
\* empty name costs the hourly storage pass at most its own row: every named
\* interface record, every lane record with all its DOM values and every
\* counter record, of the same device and of the other devices, has its row
\* in the table written
C29_OnlyOwnRowAffected ==
    (hourly_exit = Some(0) /\ ~IsNone(hourly_written) /\ SomeRecordUnsound) =>
        /\ Len(TableRows(Val(hourly_written).interface_dom))
               >= SoundRecords(DOMAIN device_files, "optics_diagnostics", "named")
        /\ Len(TableRows(Val(hourly_written).lane_dom))
               >= SoundRecords(DOMAIN device_files, "optics_diagnostics", "lanes")
        /\ Len(TableRows(Val(hourly_written).interface_counters))
               >= SoundRecords(DOMAIN device_files, "interface_statistics", "interfaces")

\* C30: for every interface the part number in the row that
\* extract_interface_dom_metrics returns is the part number of the fused
\* record
C30_PartNumberOfFusedRecord ==
    \A d \in DOMAIN hourly_interface_dom :
        ~IsNone(hourly_interface_dom[d]) =>
            LET rows == Val(hourly_interface_dom[d])
                fused == FileRecords(d, "optics_diagnostics", "interfaces")
            IN  \A i \in DOMAIN rows :
                    "part_number" \in DOMAIN fused[i] =>
                        rows[i]["part_number"] = Some(fused[i]["part_number"])

====
